---- MODULE Spec2Model ----
(***************************************************************************)
(* WebAssembly plugin host: the plugin store (fluid/plugin_store.go), the  *)
(* runtime Plugin (runtime loader and executor), the reference plugins     *)
(* (plugins/hello/hello.cpp, plugin_abi.cpp) and the HTTP gateway          *)
(* (cmd/server/main.go).                                                   *)
(*                                                                         *)
(* Strings that the code inspects character by character (plugin names)    *)
(* are sequences of Unicode code points; paths are records of an           *)
(* absolute flag and a sequence of components.                             *)
(***************************************************************************)
EXTENDS Integers, Sequences, FiniteSets, TLC

VARIABLES
    fs,       \* the filesystem: clean path -> [content, access]
    req,      \* gateway: per request task, the locals of handleRun/executePlugin
    plugin,   \* per task: the *Plugin it holds (nil or a pointer to [path, vm, config])
    config,   \* engine: per handle, the wasmedge.Configure object
    vm,       \* engine: per handle, the wasmedge.VM object and its module instance
    elog,     \* engine: per handle, the exports invoked through vm.Execute, in order
    last,     \* direct driver: the last Plugin method call and what it returned
    arg,      \* pure-function checks: the arguments
    ret       \* pure-function checks: the returned value

vars == <<fs, req, plugin, config, vm, elog, last, arg, ret>>

\* ------------------------------------------------------------------ bounds
NumReq == 2          \* request tasks the gateway serves concurrently
MaxResolves == 2     \* successive Resolve calls with one store and name
MaxOps == 4          \* Plugin method calls the direct driver issues on one plugin
MaxNameLen == 2      \* longest plugin name given to isValidPluginName

\* A nil *Plugin is the empty sequence, a pointer to a Plugin holds it; a nil
\* engine handle is handle 0.
NilPlugin == <<>>
NilHandle == 0
None == "none"
Tasks == 1..NumReq

\* ------------------------------------------------------ strings and paths
\* Code points of the characters the name check distinguishes, with the
\* neighbours of every range boundary: NUL ' ' '-' '.' '/' '0' '9' ':' ';'
\* '@' 'A' 'Z' '[' '\' '_' '`' 'a' 'z' '{' U+00E9 (non-ASCII letter).
Alphabet == {0, 32, 45, 46, 47, 48, 57, 58, 59, 64, 65, 90, 91, 92, 95, 96, 97, 122, 123, 233}

RECURSIVE SeqsUpTo(_, _)
SeqsUpTo(S, n) ==
    IF n = 0 THEN {<<>>}
    ELSE LET shorter == SeqsUpTo(S, n - 1)
         IN  shorter \cup {Append(s, c) : s \in {t \in shorter : Len(t) = n - 1}, c \in S}

\* ".wasm"
WasmExt == <<46, 119, 97, 115, 109>>

\* Plugin names used by the gateway and the store checks.
NameHello == <<104, 101, 108, 108, 111>>          \* "hello"  (plugins/hello/hello.cpp)
NameAbi == <<97, 98, 105>>                        \* "abi"    (plugin_abi.cpp)
NamePlugin == <<112, 108, 117, 103, 105, 110>>    \* "plugin" (plugin.cpp: process only)
NameAbi2 == <<97, 98, 105, 50>>                   \* "abi2"   (plugin_abi.cpp reporting v2.0.0)
NameRaw == <<114, 97, 119>>                      \* "raw"    (a module of unknown behaviour)
NameJunk == <<106, 117, 110, 107>>                \* "junk"   (not a WASM binary)
NameIll == <<105, 108, 108>>                      \* "ill"    (fails validation)
NameNolink == <<110, 111, 108, 105, 110, 107>>    \* "nolink" (fails instantiation)
NameLocked == <<108, 111, 99, 107, 101, 100>>     \* "locked" (stat fails, not with ENOENT)
NameGhost == <<103, 104, 111, 115, 116>>          \* "ghost"  (no such file)
NameEmpty == <<>>                                 \* ""
NameTraversal == <<46, 46, 47, 120>>              \* "../x"
NameSpecial == <<104, 59, 114, 109, 32, 47>>      \* "h;rm /"

\* Path components.
CompDot == <<46>>                                 \* "."
CompDotDot == <<46, 46>>                          \* ".."
CompPlugins == <<112, 108, 117, 103, 105, 110, 115>>   \* "plugins"
CompMnt == <<109, 110, 116>>                      \* "mnt"
CompFluid == <<102, 108, 117, 105, 100>>          \* "fluid"

\* An uncleaned path as the caller wrote it: "./plugins", "/mnt/fluid/plugins", ...
RootLocal == [abs |-> FALSE, comps |-> <<CompDot, CompPlugins>>]          \* "./plugins"
RootPlain == [abs |-> FALSE, comps |-> <<CompPlugins>>]                   \* "plugins"
RootFluid == [abs |-> TRUE, comps |-> <<CompMnt, CompFluid, CompPlugins>>]  \* "/mnt/fluid/plugins"
RootEmpty == [abs |-> FALSE, comps |-> <<>>]                              \* ""

\* path/filepath.Clean on components: drops "" and ".", resolves "..".
RECURSIVE CleanComps(_, _, _)
CleanComps(abs, todo, done) ==
    IF todo = <<>> THEN done
    ELSE LET c == Head(todo)
             rest == Tail(todo)
         IN  IF c = <<>> \/ c = CompDot THEN CleanComps(abs, rest, done)
             ELSE IF c = CompDotDot
                  THEN IF done # <<>> /\ done[Len(done)] # CompDotDot
                       THEN CleanComps(abs, rest, SubSeq(done, 1, Len(done) - 1))
                       ELSE IF abs THEN CleanComps(abs, rest, done)
                            ELSE CleanComps(abs, rest, Append(done, c))
                  ELSE CleanComps(abs, rest, Append(done, c))

Clean(p) == [abs |-> p.abs, comps |-> CleanComps(p.abs, p.comps, <<>>)]

\* filepath.Join(base, name, name+".wasm"): the non-empty elements joined by
\* the separator, then cleaned.  An element holding a separator splits into
\* several components.
RECURSIVE SplitSlash(_, _, _)
SplitSlash(s, cur, out) ==
    IF s = <<>> THEN Append(out, cur)
    ELSE IF Head(s) = 47 THEN SplitSlash(Tail(s), <<>>, Append(out, cur))
         ELSE SplitSlash(Tail(s), Append(cur, Head(s)), out)

JoinName(base, pluginName) ==
    LET file == pluginName \o WasmExt
        first == IF pluginName = <<>> THEN <<>> ELSE SplitSlash(pluginName, <<>>, <<>>)
        second == SplitSlash(file, <<>>, <<>>)
        \* an empty base followed by an element that starts with "/" is absolute
        abs == base.abs \/ (base.comps = <<>> /\ pluginName # <<>> /\ Head(pluginName) = 47)
    IN  Clean([abs |-> abs, comps |-> base.comps \o first \o second])

\* ------------------------------------------------------------- filesystem
\* What a binary holds, as far as the engine tells binaries apart.
ModuleKinds == {"hello", "abi", "abi2", "plugin", "raw"}
BadKinds == {"junk", "ill", "nolink"}
NoFile == [content |-> None, access |-> TRUE]

FsEntry(p) == IF p \in DOMAIN fs THEN fs[p] ELSE NoFile

\* os.Stat: nil, or the errno of the failure.
Stat(p) ==
    LET e == FsEntry(Clean(p))
    IN  IF ~e.access THEN "EACCES"
        ELSE IF e.content = None THEN "ENOENT"
        ELSE "ok"

IsNotExist(errno) == errno = "ENOENT"

FileExists(p) == FsEntry(Clean(p)).content # None

\* ------------------------------------------------------------ plugin store
ErrPluginNotFound == "plugin not found"

LocalPluginStore(basePath) == [type |-> "local", root |-> basePath]
FluidPluginStore(mountPath) == [type |-> "fluid", root |-> mountPath]

\* The empty string returned in place of a path.
EmptyPath == [abs |-> FALSE, comps |-> <<>>]

\* What an error message mentions: a plugin name, a path, or neither.
AboutNothing == [name |-> <<>>, path |-> EmptyPath]
AboutName(n) == [name |-> n, path |-> EmptyPath]
AboutPath(p) == [name |-> <<>>, path |-> p]

\* An error value: its message (the format's fixed text), the error it wraps
\* with %w (or None), what it mentions, and the code it carries.
Err(msg, wraps, about, code) == [msg |-> msg, wraps |-> wraps, about |-> about, code |-> code]
NoErr == Err("nil", None, AboutNothing, 0)

\* LocalResolve without the os.Stat test: the path is returned unconditionally.
LocalResolveMutNoExistCheck(s, pluginName) ==
    LET wasmPath == JoinName(s.root, pluginName)
    IN  IF Stat(wasmPath) # "ok"
        THEN [path |-> EmptyPath, err |-> Err(ErrPluginNotFound, ErrPluginNotFound, AboutName(pluginName), 0)]
        ELSE [path |-> wasmPath, err |-> NoErr]

\* (*LocalPluginStore).Resolve: the path and the error it returns.
LocalResolve(s, pluginName) ==
    LET wasmPath == JoinName(s.root, pluginName)
        errno == Stat(wasmPath)
    IN  IF errno # "ok"
        THEN IF IsNotExist(errno)
             THEN [path |-> EmptyPath, err |-> Err(ErrPluginNotFound, ErrPluginNotFound, AboutName(pluginName), 0)]
             ELSE [path |-> EmptyPath, err |-> Err("failed to access plugin", errno, AboutNothing, 0)]
        ELSE [path |-> wasmPath, err |-> NoErr]

\* FluidResolve reporting every os.Stat failure as ErrPluginNotFound.
FluidResolveMutAllNotFound(s, pluginName) ==
    LET wasmPath == JoinName(s.root, pluginName)
        errno == Stat(wasmPath)
    IN  IF errno # "ok"
        THEN [path |-> EmptyPath, err |-> Err(ErrPluginNotFound, ErrPluginNotFound, AboutName(pluginName), 0)]
        ELSE [path |-> wasmPath, err |-> NoErr]

\* FluidResolve looking under a "plugins" directory of the mount.
FluidResolveMutSubdir(s, pluginName) ==
    LET wasmPath == JoinName([s.root EXCEPT !.comps = @ \o <<CompPlugins>>], pluginName)
        errno == Stat(wasmPath)
    IN  IF errno # "ok"
        THEN IF IsNotExist(errno)
             THEN [path |-> EmptyPath, err |-> Err(ErrPluginNotFound, ErrPluginNotFound, AboutName(pluginName), 0)]
             ELSE [path |-> EmptyPath, err |-> Err("failed to access plugin on Fluid mount", errno, AboutNothing, 0)]
        ELSE [path |-> wasmPath, err |-> NoErr]

\* (*FluidPluginStore).Resolve: the path and the error it returns.
FluidResolve(s, pluginName) ==
    LET wasmPath == JoinName(s.root, pluginName)
        errno == Stat(wasmPath)
    IN  IF errno # "ok"
        THEN IF IsNotExist(errno)
             THEN [path |-> EmptyPath, err |-> Err(ErrPluginNotFound, ErrPluginNotFound, AboutName(pluginName), 0)]
             ELSE [path |-> EmptyPath, err |-> Err("failed to access plugin on Fluid mount", errno, AboutNothing, 0)]
        ELSE [path |-> wasmPath, err |-> NoErr]

\* PluginStore.Resolve: dispatch on the implementation behind the interface.
Resolve(s, pluginName) ==
    IF s.type = "local" THEN LocalResolve(s, pluginName) ELSE FluidResolve(s, pluginName)

\* errors.Is(err, ErrPluginNotFound)
WrapsNotFound(err) == err.wraps = ErrPluginNotFound

\* ------------------------------------------------------- gateway name check
\* The character test with the upper bound of a-z off by one ('{' accepted).
isValidCharMutRange(c) ==
    \/ (c >= 97 /\ c <= 123)
    \/ (c >= 65 /\ c <= 90)
    \/ (c >= 48 /\ c <= 57)
    \/ c = 95 \/ c = 45

\* The test isValidPluginName applies to each character c of the name.
isValidChar(c) ==
    \/ (c >= 97 /\ c <= 122)
    \/ (c >= 65 /\ c <= 90)
    \/ (c >= 48 /\ c <= 57)
    \/ c = 95 \/ c = 45

isValidPluginName(name) ==
    IF Len(name) = 0 THEN FALSE
    ELSE \A i \in 1..Len(name) : isValidChar(name[i])


\* ================================================================= engine
\* A Go int (64 bit) as its upper word and its lower 32-bit word taken as a
\* signed number: the value is hi * 2^32 + lo.
GoInt(hi, lo) == [hi |-> hi, lo |-> lo]
Int32Max == 2147483647
Int32Min == -Int32Max - 1
HalfMax == Int32Max \div 2

\* A conversion that saturates at the int32 bounds instead of truncating.
ToInt32MutSaturate(n) ==
    IF n.hi > 0 THEN Int32Max ELSE IF n.hi < 0 THEN Int32Min ELSE n.lo

\* int32(input): the conversion keeps the lower word.
ToInt32(n) == n.lo
\* int(returnValue): sign extension of an int32.
FromInt32(v) == GoInt(0, v)

\* (input * 2) + 1 in 32-bit two's complement arithmetic (what the WASM
\* i32.mul / i32.add instructions compute).
Mul2Add1(x) ==
    IF x > HalfMax THEN 2 * ((x - HalfMax - 1) - (HalfMax + 1)) + 1
    ELSE IF x < -HalfMax - 1 THEN 2 * ((x + HalfMax + 1) + (HalfMax + 1)) + 1
    ELSE 2 * x + 1

\* A value crossing the WASM boundary, and what vm.Execute returns.
I32(v) == [type |-> "i32", v |-> v]
Returned(vals) == [err |-> FALSE, res |-> vals]
Trapped == [err |-> TRUE, res |-> <<>>]

\* What a module of unknown behaviour may do when one of its exports is
\* invoked: trap (or lack the export), return nothing, return an int32 of any
\* sign, or return a value that is not an int32.
RawCodes == {-9, -4, 0, 5}
RawOutcomes ==
    {Trapped, Returned(<<>>), Returned(<<[type |-> "i64", v |-> 0]>>)}
        \cup {Returned(<<I32(c)>>) : c \in RawCodes}

\* The instance state of a freshly instantiated module (its statics).
FreshInstance == [initialized |-> 0, call_count |-> 0]

\* The exports the hosts invoke, and per VM what each returned when it was
\* last invoked (<<>>: not invoked yet).
Exports == {"get_abi_version", "init", "process", "cleanup", "get_call_count"}
NothingSeen == [e \in Exports |-> <<>>]

\* MAJOR * 10000 + MINOR * 100 + PATCH: v1.0.0 as plugin_abi.cpp reports it,
\* and v2.0.0, reported by a build of the same plugin for the next major ABI.
AbiVersion == 10000
NextMajorVersion == 20000

\* hello.cpp whose cleanup decrements the flag instead of clearing it.
HelloCallMutCleanupDecrements(inst, export, x) ==
    CASE export = "init" ->
            [out |-> Returned(<<I32(0)>>), inst |-> [inst EXCEPT !.initialized = 1]]
      [] export = "process" ->
            IF inst.initialized = 0
            THEN [out |-> Returned(<<I32(-1)>>), inst |-> inst]
            ELSE [out |-> Returned(<<I32(Mul2Add1(x))>>), inst |-> inst]
      [] export = "cleanup" ->
            [out |-> Returned(<<I32(0)>>), inst |-> [inst EXCEPT !.initialized = @ - 1]]

\* plugins/hello/hello.cpp
HelloCall(inst, export, x) ==
    CASE export = "init" ->
            [out |-> Returned(<<I32(0)>>), inst |-> [inst EXCEPT !.initialized = 1]]
      [] export = "process" ->
            IF inst.initialized = 0
            THEN [out |-> Returned(<<I32(-1)>>), inst |-> inst]
            ELSE [out |-> Returned(<<I32(Mul2Add1(x))>>), inst |-> inst]
      [] export = "cleanup" ->
            [out |-> Returned(<<I32(0)>>), inst |-> [inst EXCEPT !.initialized = 0]]

\* plugin_abi.cpp counting the call before it validates the input.
AbiCallMutCountsFirst(inst, export, x, checked) ==
    CASE export = "get_abi_version" -> [out |-> Returned(<<I32(AbiVersion)>>), inst |-> inst]
      [] export = "init" ->
            IF inst.initialized # 0
            THEN [out |-> Returned(<<I32(-2)>>), inst |-> inst]
            ELSE [out |-> Returned(<<I32(0)>>), inst |-> [initialized |-> 1, call_count |-> 0]]
      [] export = "process" ->
            IF inst.initialized = 0 THEN [out |-> Returned(<<I32(-1)>>), inst |-> inst]
            ELSE LET result == Mul2Add1(x)
                     counted == [inst EXCEPT !.call_count = @ + 1]
                 IN  IF x < 0 THEN [out |-> Returned(<<I32(-3)>>), inst |-> counted]
                     ELSE IF result < 0 /\ checked
                     THEN [out |-> Returned(<<I32(-4)>>), inst |-> counted]
                     ELSE [out |-> Returned(<<I32(result)>>), inst |-> counted]
      [] export = "cleanup" ->
            IF inst.initialized = 0
            THEN [out |-> Returned(<<I32(-1)>>), inst |-> inst]
            ELSE [out |-> Returned(<<I32(0)>>), inst |-> [initialized |-> 0, call_count |-> 0]]
      [] export = "get_call_count" -> [out |-> Returned(<<I32(inst.call_count)>>), inst |-> inst]

\* plugin_abi.cpp whose init has no already-initialized guard: it succeeds
\* again and resets the call count.
AbiCallMutReinit(inst, export, x, checked) ==
    CASE export = "get_abi_version" -> [out |-> Returned(<<I32(AbiVersion)>>), inst |-> inst]
      [] export = "init" ->
            [out |-> Returned(<<I32(0)>>), inst |-> [initialized |-> 1, call_count |-> 0]]
      [] export = "process" ->
            IF inst.initialized = 0 THEN [out |-> Returned(<<I32(-1)>>), inst |-> inst]
            ELSE IF x < 0 THEN [out |-> Returned(<<I32(-3)>>), inst |-> inst]
            ELSE LET result == Mul2Add1(x)
                     counted == [inst EXCEPT !.call_count = @ + 1]
                 IN  IF result < 0 /\ checked
                     THEN [out |-> Returned(<<I32(-4)>>), inst |-> counted]
                     ELSE [out |-> Returned(<<I32(result)>>), inst |-> counted]
      [] export = "cleanup" ->
            IF inst.initialized = 0
            THEN [out |-> Returned(<<I32(-1)>>), inst |-> inst]
            ELSE [out |-> Returned(<<I32(0)>>), inst |-> [initialized |-> 0, call_count |-> 0]]
      [] export = "get_call_count" -> [out |-> Returned(<<I32(inst.call_count)>>), inst |-> inst]

\* plugin_abi.cpp whose cleanup clears the initialized flag only.
AbiCallMutCleanupKeepsCount(inst, export, x, checked) ==
    CASE export = "get_abi_version" -> [out |-> Returned(<<I32(AbiVersion)>>), inst |-> inst]
      [] export = "init" ->
            IF inst.initialized # 0
            THEN [out |-> Returned(<<I32(-2)>>), inst |-> inst]
            ELSE [out |-> Returned(<<I32(0)>>), inst |-> [initialized |-> 1, call_count |-> 0]]
      [] export = "process" ->
            IF inst.initialized = 0 THEN [out |-> Returned(<<I32(-1)>>), inst |-> inst]
            ELSE IF x < 0 THEN [out |-> Returned(<<I32(-3)>>), inst |-> inst]
            ELSE LET result == Mul2Add1(x)
                     counted == [inst EXCEPT !.call_count = @ + 1]
                 IN  IF result < 0 /\ checked
                     THEN [out |-> Returned(<<I32(-4)>>), inst |-> counted]
                     ELSE [out |-> Returned(<<I32(result)>>), inst |-> counted]
      [] export = "cleanup" ->
            IF inst.initialized = 0
            THEN [out |-> Returned(<<I32(-1)>>), inst |-> inst]
            ELSE [out |-> Returned(<<I32(0)>>), inst |-> [inst EXCEPT !.initialized = 0]]
      [] export = "get_call_count" -> [out |-> Returned(<<I32(inst.call_count)>>), inst |-> inst]

\* plugin_abi.cpp.  The signed overflow of (input * 2) + 1 is undefined in
\* C++: the build either keeps the result < 0 test (checked = TRUE) or, since
\* input >= 0 is known, drops it and returns the wrapped value.
AbiCall(inst, export, x, checked) ==
    CASE export = "get_abi_version" -> [out |-> Returned(<<I32(AbiVersion)>>), inst |-> inst]
      [] export = "init" ->
            IF inst.initialized # 0
            THEN [out |-> Returned(<<I32(-2)>>), inst |-> inst]
            ELSE [out |-> Returned(<<I32(0)>>), inst |-> [initialized |-> 1, call_count |-> 0]]
      [] export = "process" ->
            IF inst.initialized = 0 THEN [out |-> Returned(<<I32(-1)>>), inst |-> inst]
            ELSE IF x < 0 THEN [out |-> Returned(<<I32(-3)>>), inst |-> inst]
            ELSE LET result == Mul2Add1(x)
                     counted == [inst EXCEPT !.call_count = @ + 1]
                 IN  IF result < 0 /\ checked
                     THEN [out |-> Returned(<<I32(-4)>>), inst |-> counted]
                     ELSE [out |-> Returned(<<I32(result)>>), inst |-> counted]
      [] export = "cleanup" ->
            IF inst.initialized = 0
            THEN [out |-> Returned(<<I32(-1)>>), inst |-> inst]
            ELSE [out |-> Returned(<<I32(0)>>), inst |-> [initialized |-> 0, call_count |-> 0]]
      [] export = "get_call_count" -> [out |-> Returned(<<I32(inst.call_count)>>), inst |-> inst]

\* plugin.cpp: the module exports process alone and keeps no state; the
\* engine fails the invocation of an export the module does not have.
PluginCall(inst, export, x) ==
    IF export = "process"
    THEN [out |-> Returned(<<I32(Mul2Add1(x))>>), inst |-> inst]
    ELSE [out |-> Trapped, inst |-> inst]

\* plugin_abi.cpp built to report ABI v2.0.0.
Abi2Call(inst, export, x, checked) ==
    IF export = "get_abi_version"
    THEN [out |-> Returned(<<I32(NextMajorVersion)>>), inst |-> inst]
    ELSE AbiCall(inst, export, x, checked)

\* The exports a module has (-Wl,--export=...).
ExportsOf(kind) ==
    CASE kind = "hello" -> {"init", "process", "cleanup"}
      [] kind = "plugin" -> {"process"}
      [] OTHER -> Exports

\* The choices the engine resolves when module `kind` runs `export` on x.
EngineChoices(kind, export, x) ==
    IF kind = "raw"
    THEN IF export = "get_abi_version"
         THEN RawOutcomes \cup {Returned(<<I32(AbiVersion + 203)>>)}
         ELSE RawOutcomes
    ELSE IF kind \in {"abi", "abi2"} /\ export = "process" /\ x > HalfMax THEN {TRUE, FALSE}
    ELSE {TRUE}

\* vm.Execute(export, x) on VM object v: the export's result and the VM after.
\* Invoking a function the module does not export is an engine failure.
VmExecute(v, export, x, choice) ==
    LET r == IF export \notin ExportsOf(v.module) THEN [out |-> Trapped, inst |-> v.inst]
             ELSE CASE v.module = "hello" -> HelloCall(v.inst, export, x)
                    [] v.module = "abi" -> AbiCall(v.inst, export, x, choice)
                    [] v.module = "abi2" -> Abi2Call(v.inst, export, x, choice)
                    [] v.module = "plugin" -> PluginCall(v.inst, export, x)
                    [] OTHER -> [out |-> choice, inst |-> v.inst]
    IN  [out |-> r.out, vm |-> [v EXCEPT !.inst = r.inst, !.seen[export] = <<r.out>>]]

\* ================================================== runtime: loader (Plugin)
NoHandle == [created |-> 0, released |-> 0]
NoVm == [created |-> 0, released |-> 0, module |-> None, inst |-> FreshInstance,
         seen |-> NothingSeen]

\* Engine allocation outcomes LoadPlugin tests for: each constructor may
\* return nil.
AllocOutcomes == {"ok", "noconfig", "novm", "nowasi"}

LoadFailed(err, cfg, v) == [plugin |-> NilPlugin, err |-> err, config |-> cfg, vm |-> v]

\* LoadPlugin whose LoadWasmFile failure path omits config.Release().
LoadPluginMutLeakConfig(h, path, alloc) ==
    LET errno == Stat(path)
        content == FsEntry(Clean(path)).content
        cfg1 == [created |-> 1, released |-> 0]
        cfgR == [created |-> 1, released |-> 1]
        vm1 == [NoVm EXCEPT !.created = 1]
        vmR == [vm1 EXCEPT !.released = 1]
    IN  IF errno # "ok"
        THEN LoadFailed(Err("plugin file not found", errno, AboutPath(path), 0), NoHandle, NoVm)
        ELSE IF alloc = "noconfig"
        THEN LoadFailed(Err("failed to create WasmEdge configuration", None, AboutNothing, 0), NoHandle, NoVm)
        ELSE IF alloc = "novm"
        THEN LoadFailed(Err("failed to create WasmEdge VM", None, AboutNothing, 0), cfgR, NoVm)
        ELSE IF alloc = "nowasi"
        THEN LoadFailed(Err("failed to get WASI module", None, AboutNothing, 0), cfgR, vmR)
        ELSE IF content = "junk"
        THEN LoadFailed(Err("failed to load WASM file", "engine", AboutPath(path), 0), cfg1, vmR)
        ELSE IF content = "ill"
        THEN LoadFailed(Err("WASM module validation failed", "engine", AboutPath(path), 0), cfgR, vmR)
        ELSE IF content = "nolink"
        THEN LoadFailed(Err("WASM module instantiation failed", "engine", AboutPath(path), 0), cfgR, vmR)
        ELSE [plugin |-> <<[path |-> path, vm |-> h, config |-> h]>>,
              err |-> NoErr,
              config |-> cfg1,
              vm |-> [vm1 EXCEPT !.module = content]]

\* LoadPlugin handing out a pooled Plugin: when a live VM already runs the
\* same module, the returned Plugin refers to that VM.
LoadPluginMutPooled(h, path, alloc) ==
    LET errno == Stat(path)
        content == FsEntry(Clean(path)).content
        cfg1 == [created |-> 1, released |-> 0]
        cfgR == [created |-> 1, released |-> 1]
        vm1 == [NoVm EXCEPT !.created = 1]
        vmR == [vm1 EXCEPT !.released = 1]
        live == {g \in DOMAIN vm : vm[g].created = 1 /\ vm[g].released = 0 /\ vm[g].module = content}
        pooled == IF live = {} THEN h ELSE CHOOSE g \in live : TRUE
    IN  IF errno # "ok"
        THEN LoadFailed(Err("plugin file not found", errno, AboutPath(path), 0), NoHandle, NoVm)
        ELSE IF alloc = "noconfig"
        THEN LoadFailed(Err("failed to create WasmEdge configuration", None, AboutNothing, 0), NoHandle, NoVm)
        ELSE IF alloc = "novm"
        THEN LoadFailed(Err("failed to create WasmEdge VM", None, AboutNothing, 0), cfgR, NoVm)
        ELSE IF alloc = "nowasi"
        THEN LoadFailed(Err("failed to get WASI module", None, AboutNothing, 0), cfgR, vmR)
        ELSE IF content = "junk"
        THEN LoadFailed(Err("failed to load WASM file", "engine", AboutPath(path), 0), cfgR, vmR)
        ELSE IF content = "ill"
        THEN LoadFailed(Err("WASM module validation failed", "engine", AboutPath(path), 0), cfgR, vmR)
        ELSE IF content = "nolink"
        THEN LoadFailed(Err("WASM module instantiation failed", "engine", AboutPath(path), 0), cfgR, vmR)
        ELSE [plugin |-> <<[path |-> path, vm |-> pooled, config |-> pooled]>>,
              err |-> NoErr,
              config |-> cfg1,
              vm |-> [vm1 EXCEPT !.module = content]]

\* LoadPlugin returning early only when os.Stat reports absence; any other
\* Stat error goes on to the engine.
LoadPluginMutOnlyAbsence(h, path, alloc) ==
    LET errno == Stat(path)
        content == FsEntry(Clean(path)).content
        cfg1 == [created |-> 1, released |-> 0]
        cfgR == [created |-> 1, released |-> 1]
        vm1 == [NoVm EXCEPT !.created = 1]
        vmR == [vm1 EXCEPT !.released = 1]
    IN  IF IsNotExist(errno)
        THEN LoadFailed(Err("plugin file not found", errno, AboutPath(path), 0), NoHandle, NoVm)
        ELSE IF alloc = "noconfig"
        THEN LoadFailed(Err("failed to create WasmEdge configuration", None, AboutNothing, 0), NoHandle, NoVm)
        ELSE IF alloc = "novm"
        THEN LoadFailed(Err("failed to create WasmEdge VM", None, AboutNothing, 0), cfgR, NoVm)
        ELSE IF alloc = "nowasi"
        THEN LoadFailed(Err("failed to get WASI module", None, AboutNothing, 0), cfgR, vmR)
        ELSE IF content = "junk"
        THEN LoadFailed(Err("failed to load WASM file", "engine", AboutPath(path), 0), cfgR, vmR)
        ELSE IF content = "ill"
        THEN LoadFailed(Err("WASM module validation failed", "engine", AboutPath(path), 0), cfgR, vmR)
        ELSE IF content = "nolink"
        THEN LoadFailed(Err("WASM module instantiation failed", "engine", AboutPath(path), 0), cfgR, vmR)
        ELSE [plugin |-> <<[path |-> path, vm |-> h, config |-> h]>>,
              err |-> NoErr,
              config |-> cfg1,
              vm |-> [vm1 EXCEPT !.module = content]]

\* LoadPlugin(path) by task/handle h: the *Plugin and error it returns, and
\* the engine objects it leaves behind.
LoadPlugin(h, path, alloc) ==
    LET errno == Stat(path)
        content == FsEntry(Clean(path)).content
        cfg1 == [created |-> 1, released |-> 0]
        cfgR == [created |-> 1, released |-> 1]
        vm1 == [NoVm EXCEPT !.created = 1]
        vmR == [vm1 EXCEPT !.released = 1]
    IN  IF errno # "ok"
        THEN LoadFailed(Err("plugin file not found", errno, AboutPath(path), 0), NoHandle, NoVm)
        ELSE IF alloc = "noconfig"
        THEN LoadFailed(Err("failed to create WasmEdge configuration", None, AboutNothing, 0), NoHandle, NoVm)
        ELSE IF alloc = "novm"
        THEN LoadFailed(Err("failed to create WasmEdge VM", None, AboutNothing, 0), cfgR, NoVm)
        ELSE IF alloc = "nowasi"
        THEN LoadFailed(Err("failed to get WASI module", None, AboutNothing, 0), cfgR, vmR)
        ELSE IF content = "junk"
        THEN LoadFailed(Err("failed to load WASM file", "engine", AboutPath(path), 0), cfgR, vmR)
        ELSE IF content = "ill"
        THEN LoadFailed(Err("WASM module validation failed", "engine", AboutPath(path), 0), cfgR, vmR)
        ELSE IF content = "nolink"
        THEN LoadFailed(Err("WASM module instantiation failed", "engine", AboutPath(path), 0), cfgR, vmR)
        ELSE [plugin |-> <<[path |-> path, vm |-> h, config |-> h]>>,
              err |-> NoErr,
              config |-> cfg1,
              vm |-> [vm1 EXCEPT !.module = content]]

\* Close that releases the VM without setting p.vm to nil.
CloseMutKeepsVm(p, cfgs, vms) ==
    [plugin |-> [p EXCEPT !.config = NilHandle],
     vm |-> IF p.vm # NilHandle THEN [vms EXCEPT ![p.vm].released = @ + 1] ELSE vms,
     config |-> IF p.config # NilHandle THEN [cfgs EXCEPT ![p.config].released = @ + 1] ELSE cfgs]

\* (*Plugin).Close: the plugin and the engine objects after the call.
Close(p, cfgs, vms) ==
    [plugin |-> [p EXCEPT !.vm = NilHandle, !.config = NilHandle],
     vm |-> IF p.vm # NilHandle THEN [vms EXCEPT ![p.vm].released = @ + 1] ELSE vms,
     config |-> IF p.config # NilHandle THEN [cfgs EXCEPT ![p.config].released = @ + 1] ELSE cfgs]

\* ================================================ runtime: executor (Plugin)
ABISuccess == 0
ABIErrorNotInitialized == -1
ABIErrorAlreadyInitialized == -2
ABIErrorInvalidInput == -3
ABIErrorInternal == -4

abiErrorString(code) ==
    CASE code = ABISuccess -> "success"
      [] code = ABIErrorNotInitialized -> "ABI_ERROR_NOT_INITIALIZED"
      [] code = ABIErrorAlreadyInitialized -> "ABI_ERROR_ALREADY_INITIALIZED"
      [] code = ABIErrorInvalidInput -> "ABI_ERROR_INVALID_INPUT"
      [] code = ABIErrorInternal -> "ABI_ERROR_INTERNAL"
      [] OTHER -> "unknown error code"

ErrClosed == Err("plugin is closed", None, AboutNothing, 0)
Zero == GoInt(0, 0)

\* The result of a Plugin method: the returned value and error, whether the
\* call panicked (a failed result[0].(int32) assertion), and the engine after.
MethodResult(val, err, panic, vms, log) ==
    [val |-> val, err |-> err, panic |-> panic, vm |-> vms, elog |-> log]

\* Init and Cleanup taking only a negative return code for an error.
CallNoArgMutNegativeOnly(p, export, vms, log, choice) ==
    IF p.vm = NilHandle THEN MethodResult(Zero, ErrClosed, FALSE, vms, log)
    ELSE LET r == VmExecute(vms[p.vm], export, 0, choice)
             vms2 == [vms EXCEPT ![p.vm] = r.vm]
             log2 == [log EXCEPT ![p.vm] = Append(@, export)]
         IN  IF r.out.err
             THEN MethodResult(Zero, Err("failed to execute " \o export \o "()", "engine", AboutPath(p.path), 0),
                               FALSE, vms2, log2)
             ELSE IF Len(r.out.res) = 0
             THEN MethodResult(Zero, Err(export \o "() did not return a value", None, AboutPath(p.path), 0),
                               FALSE, vms2, log2)
             ELSE IF r.out.res[1].type # "i32"
             THEN MethodResult(Zero, NoErr, TRUE, vms2, log2)
             ELSE IF r.out.res[1].v < ABISuccess
             THEN MethodResult(Zero, Err(export \o "() returned error code",
                                         abiErrorString(r.out.res[1].v), AboutPath(p.path), r.out.res[1].v),
                               FALSE, vms2, log2)
             ELSE MethodResult(Zero, NoErr, FALSE, vms2, log2)

\* The shared shape of Init and Cleanup: invoke `export` with no argument and
\* turn a non-zero return code into an error.
CallNoArg(p, export, vms, log, choice) ==
    IF p.vm = NilHandle THEN MethodResult(Zero, ErrClosed, FALSE, vms, log)
    ELSE LET r == VmExecute(vms[p.vm], export, 0, choice)
             vms2 == [vms EXCEPT ![p.vm] = r.vm]
             log2 == [log EXCEPT ![p.vm] = Append(@, export)]
         IN  IF r.out.err
             THEN MethodResult(Zero, Err("failed to execute " \o export \o "()", "engine", AboutPath(p.path), 0),
                               FALSE, vms2, log2)
             ELSE IF Len(r.out.res) = 0
             THEN MethodResult(Zero, Err(export \o "() did not return a value", None, AboutPath(p.path), 0),
                               FALSE, vms2, log2)
             ELSE IF r.out.res[1].type # "i32"
             THEN MethodResult(Zero, NoErr, TRUE, vms2, log2)
             ELSE IF r.out.res[1].v # ABISuccess
             THEN MethodResult(Zero, Err(export \o "() returned error code",
                                         abiErrorString(r.out.res[1].v), AboutPath(p.path), r.out.res[1].v),
                               FALSE, vms2, log2)
             ELSE MethodResult(Zero, NoErr, FALSE, vms2, log2)

\* (*Plugin).Init
Init(p, vms, log, choice) == CallNoArg(p, "init", vms, log, choice)

\* (*Plugin).Cleanup
Cleanup(p, vms, log, choice) == CallNoArg(p, "cleanup", vms, log, choice)

\* Execute taking a return value of 0 for an error code as well.
ExecuteOpenMutZeroIsError(p, input, vms, log, choice) ==
    LET r == VmExecute(vms[p.vm], "process", ToInt32(input), choice)
        vms2 == [vms EXCEPT ![p.vm] = r.vm]
        log2 == [log EXCEPT ![p.vm] = Append(@, "process")]
    IN  IF r.out.err
        THEN MethodResult(Zero, Err("failed to execute process()", "engine", AboutPath(p.path), 0),
                          FALSE, vms2, log2)
        ELSE IF Len(r.out.res) = 0
        THEN MethodResult(Zero, Err("process() did not return a value", None, AboutPath(p.path), 0),
                          FALSE, vms2, log2)
        ELSE IF r.out.res[1].type # "i32"
        THEN MethodResult(Zero, NoErr, TRUE, vms2, log2)
        ELSE IF r.out.res[1].v <= 0
        THEN MethodResult(Zero, Err("process() returned error code",
                                    abiErrorString(r.out.res[1].v), AboutPath(p.path), r.out.res[1].v),
                          FALSE, vms2, log2)
        ELSE MethodResult(FromInt32(r.out.res[1].v), NoErr, FALSE, vms2, log2)

\* Execute on a module whose statics live in one instance shared by every VM
\* (the first task's), instead of one instance per VM.
ExecuteOpenMutSharedStatics(p, input, vms, log, choice) ==
    LET first == CHOOSE h \in DOMAIN vms : \A g \in DOMAIN vms : h <= g
        r == VmExecute([vms[p.vm] EXCEPT !.inst = vms[first].inst],
                       "process", ToInt32(input), choice)
        vms2 == [vms EXCEPT ![p.vm] = r.vm]
        log2 == [log EXCEPT ![p.vm] = Append(@, "process")]
    IN  IF r.out.err
        THEN MethodResult(Zero, Err("failed to execute process()", "engine", AboutPath(p.path), 0),
                          FALSE, vms2, log2)
        ELSE IF Len(r.out.res) = 0
        THEN MethodResult(Zero, Err("process() did not return a value", None, AboutPath(p.path), 0),
                          FALSE, vms2, log2)
        ELSE IF r.out.res[1].type # "i32"
        THEN MethodResult(Zero, NoErr, TRUE, vms2, log2)
        ELSE IF r.out.res[1].v < 0
        THEN MethodResult(Zero, Err("process() returned error code",
                                    abiErrorString(r.out.res[1].v), AboutPath(p.path), r.out.res[1].v),
                          FALSE, vms2, log2)
        ELSE MethodResult(FromInt32(r.out.res[1].v), NoErr, FALSE, vms2, log2)

\* (*Plugin).Execute on an open plugin: the call of the process export and the
\* reading of its result.
ExecuteOpen(p, input, vms, log, choice) ==
    LET r == VmExecute(vms[p.vm], "process", ToInt32(input), choice)
        vms2 == [vms EXCEPT ![p.vm] = r.vm]
        log2 == [log EXCEPT ![p.vm] = Append(@, "process")]
    IN  IF r.out.err
        THEN MethodResult(Zero, Err("failed to execute process()", "engine", AboutPath(p.path), 0),
                          FALSE, vms2, log2)
        ELSE IF Len(r.out.res) = 0
        THEN MethodResult(Zero, Err("process() did not return a value", None, AboutPath(p.path), 0),
                          FALSE, vms2, log2)
        ELSE IF r.out.res[1].type # "i32"
        THEN MethodResult(Zero, NoErr, TRUE, vms2, log2)
        ELSE IF r.out.res[1].v < 0
        THEN MethodResult(Zero, Err("process() returned error code",
                                    abiErrorString(r.out.res[1].v), AboutPath(p.path), r.out.res[1].v),
                          FALSE, vms2, log2)
        ELSE MethodResult(FromInt32(r.out.res[1].v), NoErr, FALSE, vms2, log2)

\* Execute without the p.vm == nil test: the nil VM is dereferenced.
ExecuteMutNoClosedCheck(p, input, vms, log, choice) ==
    IF p.vm = NilHandle THEN MethodResult(Zero, NoErr, TRUE, vms, log)
    ELSE ExecuteOpen(p, input, vms, log, choice)

\* (*Plugin).Execute
Execute(p, input, vms, log, choice) ==
    IF p.vm = NilHandle THEN MethodResult(Zero, ErrClosed, FALSE, vms, log)
    ELSE ExecuteOpen(p, input, vms, log, choice)

\* An HTTP request as it arrives: the method, whether the body is decodable
\* JSON, and the fields the body carries.
HttpRequest(method, body, name, input) ==
    [method |-> method, body |-> body, plugin |-> name, input |-> input]

\* The locals of one handleRun call and of the executePlugin call it makes.
\*   Plugin, Input: the decoded Request;  pluginPath: what Resolve returned;
\*   output, err:   what executePlugin returns;  panicking: a panic unwinds;
\*   status, body, nresp: the response written (nresp counts writes);
\*   calls: the store and Plugin functions called, in order;
\*   fsops: the filesystem accesses made;  cleanupErr: what Cleanup returned.
NoResponseBody == [output |-> Zero, error |-> "nil", hasOutput |-> FALSE, hasError |-> FALSE,
                   cause |-> NoErr]
IdleRequest ==
    [pc |-> "idle",
     http |-> HttpRequest(None, None, NameEmpty, Zero),
     Plugin |-> NameEmpty, Input |-> Zero,
     pluginPath |-> EmptyPath,
     output |-> Zero, err |-> NoErr, panicking |-> FALSE,
     status |-> 0, body |-> NoResponseBody, nresp |-> 0,
     calls |-> <<>>, fsops |-> 0, cleanupErr |-> NoErr]

\* The record of the last call: its name, argument and results, and what was
\* true of the plugin before it (closed: Close had been called; ready: an Init
\* had succeeded with no Cleanup or Close call since; log: the engine calls
\* made so far); nops, ncloses and ready describe the history including it.
NoCall ==
    [op |-> None, path |-> EmptyPath, alloc |-> None, input |-> Zero,
     val |-> Zero, err |-> NoErr, panic |-> FALSE,
     closedBefore |-> FALSE, readyBefore |-> FALSE, logBefore |-> <<>>,
     nops |-> 0, ncloses |-> 0, ready |-> FALSE]

\* Nothing loaded, nothing served, nothing called.
IdleRuntime ==
    /\ req = [t \in Tasks |-> IdleRequest]
    /\ plugin = [t \in Tasks |-> NilPlugin]
    /\ config = [t \in Tasks |-> NoHandle]
    /\ vm = [t \in Tasks |-> NoVm]
    /\ elog = [t \in Tasks |-> <<>>]
    /\ last = NoCall

\* ====================================================== direct driver (tests)
\* A caller that loads one plugin and then calls its methods in any order, as
\* the runtime tests and cmd/example do.
DriverTask == CHOOSE t \in Tasks : \A u \in Tasks : t <= u

\* The plugin directory: one binary per kind of content, one path that cannot
\* be accessed; "ghost" is absent.
PluginPath(name) == JoinName(RootPlain, name)
DeployedFS ==
    LET file(c) == [content |-> c, access |-> TRUE]
    IN  (PluginPath(NameHello) :> file("hello")) @@ (PluginPath(NameAbi) :> file("abi"))
        @@ (PluginPath(NamePlugin) :> file("plugin")) @@ (PluginPath(NameAbi2) :> file("abi2"))
        @@ (PluginPath(NameRaw) :> file("raw")) @@ (PluginPath(NameJunk) :> file("junk"))
        @@ (PluginPath(NameIll) :> file("ill")) @@ (PluginPath(NameNolink) :> file("nolink"))
        @@ (PluginPath(NameLocked) :> [content |-> "hello", access |-> FALSE])

DeployedNames ==
    {NameHello, NameAbi, NameAbi2, NamePlugin, NameRaw, NameJunk, NameIll, NameNolink, NameLocked, NameGhost}
DriverPaths == {PluginPath(n) : n \in DeployedNames}

\* -5, 21, 2^30 (whose double overflows an int32) and 2^32 + 21.
DriverInputs == {GoInt(0, -5), GoInt(0, 21), GoInt(0, HalfMax + 1), GoInt(1, 21)}

InitSession ==
    /\ fs = DeployedFS
    /\ IdleRuntime
    /\ arg = <<>>
    /\ ret = <<>>

DriverLoad ==
    /\ last.op = None
    /\ \E path \in DriverPaths, alloc \in AllocOutcomes :
          LET r == LoadPlugin(DriverTask, path, alloc)
          IN  /\ plugin' = [plugin EXCEPT ![DriverTask] = r.plugin]
              /\ config' = [config EXCEPT ![DriverTask] = r.config]
              /\ vm' = [vm EXCEPT ![DriverTask] = r.vm]
              /\ last' = [NoCall EXCEPT !.op = "LoadPlugin", !.path = path,
                                        !.alloc = alloc, !.err = r.err]
    /\ UNCHANGED <<fs, req, elog, arg, ret>>

\* The driver may call a method while it holds a plugin and has calls left.
DriverMayCall ==
    /\ plugin[DriverTask] # NilPlugin
    /\ last.nops < MaxOps
    /\ ~last.panic

\* The record of a call of `op` that returned r and leaves `ready`.
Called(op, input, r, ready) ==
    [last EXCEPT !.op = op, !.input = input, !.val = r.val, !.err = r.err,
                 !.panic = r.panic,
                 !.closedBefore = last.ncloses > 0, !.readyBefore = last.ready,
                 !.logBefore = elog[DriverTask],
                 !.nops = @ + 1, !.ready = ready]

DriverInit ==
    /\ DriverMayCall
    /\ LET p == plugin[DriverTask][1]
           kind == vm[DriverTask].module
       IN  \E choice \in EngineChoices(kind, "init", 0) :
              LET r == Init(p, vm, elog, choice)
              IN  /\ vm' = r.vm
                  /\ elog' = r.elog
                  /\ last' = Called("Init", Zero, r,
                                    IF r.err = NoErr /\ ~r.panic THEN TRUE ELSE last.ready)
    /\ UNCHANGED <<fs, req, plugin, config, arg, ret>>

DriverExecute ==
    /\ DriverMayCall
    /\ LET p == plugin[DriverTask][1]
           kind == vm[DriverTask].module
       IN  \E input \in DriverInputs :
           \E choice \in EngineChoices(kind, "process", ToInt32(input)) :
              LET r == Execute(p, input, vm, elog, choice)
              IN  /\ vm' = r.vm
                  /\ elog' = r.elog
                  /\ last' = Called("Execute", input, r, last.ready)
    /\ UNCHANGED <<fs, req, plugin, config, arg, ret>>

DriverCleanup ==
    /\ DriverMayCall
    /\ LET p == plugin[DriverTask][1]
           kind == vm[DriverTask].module
       IN  \E choice \in EngineChoices(kind, "cleanup", 0) :
              LET r == Cleanup(p, vm, elog, choice)
              IN  /\ vm' = r.vm
                  /\ elog' = r.elog
                  /\ last' = Called("Cleanup", Zero, r, FALSE)
    /\ UNCHANGED <<fs, req, plugin, config, arg, ret>>

DriverClose ==
    /\ DriverMayCall
    /\ LET r == Close(plugin[DriverTask][1], config, vm)
       IN  /\ plugin' = [plugin EXCEPT ![DriverTask] = <<r.plugin>>]
           /\ config' = r.config
           /\ vm' = r.vm
           /\ last' = [Called("Close", Zero,
                              [val |-> Zero, err |-> NoErr, panic |-> FALSE], FALSE)
                          EXCEPT !.ncloses = @ + 1]
    /\ UNCHANGED <<fs, req, elog, arg, ret>>

\* plugin.Close() on the nil *Plugin a failed LoadPlugin returned (the
\* `plugin, _ := LoadPlugin(..); defer plugin.Close()` pattern): the method is
\* entered with p = nil and reading p.vm is a nil pointer dereference.
DriverCloseNil ==
    /\ plugin[DriverTask] = NilPlugin
    /\ last.op = "LoadPlugin"
    /\ last.err # NoErr
    /\ last' = [Called("Close", Zero, [val |-> Zero, err |-> NoErr, panic |-> TRUE], FALSE)
                   EXCEPT !.ncloses = @ + 1]
    /\ UNCHANGED <<fs, req, plugin, config, vm, elog, arg, ret>>

NextSession ==
    \/ DriverLoad
    \/ DriverInit
    \/ DriverExecute
    \/ DriverCleanup
    \/ DriverClose
    \/ DriverCloseNil

SpecSession == InitSession /\ [][NextSession]_vars

\* ====================================================== the standalone host
\* main() of the ABI host: it loads plugin_abi.wasm from the working directory
\* and drives it through version check, init, process(21) and cleanup.
\* os.Exit(1) ends the process at once, without running deferred calls; a
\* panic (result[0] of an empty result, a failed int32 assertion) runs them.
HostFile == [abs |-> FALSE,
             comps |-> <<<<112, 108, 117, 103, 105, 110, 95, 97, 98, 105>> \o WasmExt>>]
HostInput == 21
RequiredMajor == 1
VersionUnit == 10000

\* Go's integer division truncates toward zero.
GoDiv(a, b) == IF a >= 0 \/ a % b = 0 THEN a \div b ELSE (a \div b) + 1

\* The decision compared with the required major exactly.
CompatibleMutExact(version) == version = RequiredMajor * VersionUnit

\* major := version / 10000; major != requiredMajor is incompatible.
Compatible(version) == GoDiv(version, VersionUnit) = RequiredMajor

\* The version step treating a plugin without get_abi_version as an error.
negotiateVersionMutAbsentFatal(out) ==
    IF out.err THEN "exit"
    ELSE IF Len(out.res) = 0 \/ out.res[1].type # "i32" THEN "panic"
    ELSE IF ~Compatible(out.res[1].v) THEN "exit"
    ELSE "proceed"

\* Step 7 of main(): what follows from the result of get_abi_version.
negotiateVersion(out) ==
    IF out.err THEN "proceed"
    ELSE IF Len(out.res) = 0 \/ out.res[1].type # "i32" THEN "panic"
    ELSE IF ~Compatible(out.res[1].v) THEN "exit"
    ELSE "proceed"

\* The host program: where it is, what it printed as the result, whether the
\* cleanup closure is deferred, whether a panic unwinds, where os.Exit was called.
HostStart == [pc |-> "start", result |-> <<>>, cleanupDeferred |-> FALSE,
              panicking |-> FALSE, exitAt |-> None]
HostExit(h, at) == [h EXCEPT !.pc = "exited", !.exitAt = at]
HostPanic(h) ==
    [h EXCEPT !.pc = IF h.cleanupDeferred THEN "cleanup" ELSE "release", !.panicking = TRUE]
HostContents == ModuleKinds \cup BadKinds \cup {None}

InitHost ==
    /\ \E c \in HostContents : fs = (HostFile :> [content |-> c, access |-> TRUE])
    /\ IdleRuntime
    /\ arg = HostStart
    /\ ret = <<>>

\* vm.Execute(export, x) by the host: the engine after the call.
HostCall(export, x, choice) ==
    LET r == VmExecute(vm[DriverTask], export, x, choice)
    IN  [out |-> r.out,
         vm |-> [vm EXCEPT ![DriverTask] = r.vm],
         elog |-> [elog EXCEPT ![DriverTask] = Append(@, export)]]

\* Steps 1 to 6: configuration, VM, LoadWasmFile, Validate, Instantiate.
HostLoad ==
    /\ arg.pc = "start"
    /\ LET c == FsEntry(HostFile).content
       IN  /\ config' = [config EXCEPT ![DriverTask] = [created |-> 1, released |-> 0]]
           /\ vm' = [vm EXCEPT ![DriverTask] =
                        [NoVm EXCEPT !.created = 1,
                                     !.module = IF c \in ModuleKinds THEN c ELSE None]]
           /\ arg' = IF c \in ModuleKinds THEN [arg EXCEPT !.pc = "version"]
                     ELSE HostExit(arg, "load")
           /\ ret' = IF c \in ModuleKinds THEN ret ELSE <<1>>
    /\ UNCHANGED <<fs, req, plugin, elog, last>>

HostVersion ==
    /\ arg.pc = "version"
    /\ \E choice \in EngineChoices(vm[DriverTask].module, "get_abi_version", 0) :
          LET r == HostCall("get_abi_version", 0, choice)
              next == negotiateVersion(r.out)
          IN  /\ vm' = r.vm
              /\ elog' = r.elog
              /\ arg' = CASE next = "proceed" -> [arg EXCEPT !.pc = "init"]
                          [] next = "exit" -> HostExit(arg, "version")
                          [] OTHER -> HostPanic(arg)
              /\ ret' = IF next = "exit" THEN <<1>> ELSE ret
    /\ UNCHANGED <<fs, req, plugin, config, last>>

\* result[0].(int32) with no length check: <<v>>, or <<>> when it panics.
HostInt32(out) ==
    IF Len(out.res) >= 1 /\ out.res[1].type = "i32" THEN <<out.res[1].v>> ELSE <<>>

\* Step 8: init, then the cleanup closure is deferred.
HostInit ==
    /\ arg.pc = "init"
    /\ \E choice \in EngineChoices(vm[DriverTask].module, "init", 0) :
          LET r == HostCall("init", 0, choice)
              code == HostInt32(r.out)
              exits == r.out.err \/ (code # <<>> /\ code[1] # 0)
          IN  /\ vm' = r.vm
              /\ elog' = r.elog
              /\ arg' = IF exits THEN HostExit(arg, "init")
                        ELSE IF code = <<>> THEN HostPanic(arg)
                        ELSE [arg EXCEPT !.pc = "process", !.cleanupDeferred = TRUE]
              /\ ret' = IF exits THEN <<1>> ELSE ret
    /\ UNCHANGED <<fs, req, plugin, config, last>>

\* Steps 9 and 10: process(21) and the reading of its result.
HostProcess ==
    /\ arg.pc = "process"
    /\ \E choice \in EngineChoices(vm[DriverTask].module, "process", HostInput) :
          LET r == HostCall("process", HostInput, choice)
              val == HostInt32(r.out)
              exits == r.out.err \/ Len(r.out.res) = 0 \/ (val # <<>> /\ val[1] < 0)
          IN  /\ vm' = r.vm
              /\ elog' = r.elog
              /\ arg' = IF exits THEN HostExit(arg, "process")
                        ELSE IF val = <<>> THEN HostPanic(arg)
                        ELSE [arg EXCEPT !.pc = "count", !.result = val]
              /\ ret' = IF exits THEN <<1>> ELSE ret
    /\ UNCHANGED <<fs, req, plugin, config, last>>

\* Step 11: get_call_count, printed when the call succeeds; main then returns.
HostCount ==
    /\ arg.pc = "count"
    /\ \E choice \in EngineChoices(vm[DriverTask].module, "get_call_count", 0) :
          LET r == HostCall("get_call_count", 0, choice)
          IN  /\ vm' = r.vm
              /\ elog' = r.elog
              /\ arg' = IF ~r.out.err /\ HostInt32(r.out) = <<>> THEN HostPanic(arg)
                        ELSE [arg EXCEPT !.pc = "cleanup"]
    /\ UNCHANGED <<fs, req, plugin, config, last, ret>>

\* The deferred closure: cleanup, whose failure is only reported.
HostCleanup ==
    /\ arg.pc = "cleanup"
    /\ \E choice \in EngineChoices(vm[DriverTask].module, "cleanup", 0) :
          LET r == HostCall("cleanup", 0, choice)
          IN  /\ vm' = r.vm
              /\ elog' = r.elog
              /\ arg' = [arg EXCEPT !.pc = "release",
                                    !.panicking = @ \/ (~r.out.err /\ HostInt32(r.out) = <<>>)]
    /\ UNCHANGED <<fs, req, plugin, config, last, ret>>

\* The deferred vm.Release() and conf.Release(); the process ends with status
\* 0, or 2 after a panic.
HostRelease ==
    /\ arg.pc = "release"
    /\ vm' = [vm EXCEPT ![DriverTask].released = @ + 1]
    /\ config' = [config EXCEPT ![DriverTask].released = @ + 1]
    /\ arg' = [arg EXCEPT !.pc = "exited"]
    /\ ret' = IF arg.panicking THEN <<2>> ELSE <<0>>
    /\ UNCHANGED <<fs, req, plugin, elog, last>>

NextHost ==
    \/ HostLoad
    \/ HostVersion
    \/ HostInit
    \/ HostProcess
    \/ HostCount
    \/ HostCleanup
    \/ HostRelease

SpecHost == InitHost /\ [][NextHost]_vars

\* ============================================================== the gateway
\* cmd/server/main.go.  Each request is served by its own task (net/http runs
\* one goroutine per connection).  A task's steps are the points at which
\* handleRun and executePlugin touch the filesystem or the engine; what lies
\* between two such points is local to the task and belongs to the step.
StatusOK == 200
StatusBadRequest == 400
StatusNotFound == 404
StatusMethodNotAllowed == 405
StatusInternalServerError == 500

\* main(): the default store, fluid.NewLocalPluginStore("./plugins")
ServerStore == LocalPluginStore(RootLocal)

RequestInputs == {GoInt(0, -5), GoInt(0, 21)}
RequestNames == DeployedNames \cup {NameEmpty, NameTraversal, NameSpecial}
AllRequests ==
    {HttpRequest(m, "ok", n, i) : m \in {"POST", "GET"}, n \in RequestNames, i \in RequestInputs}
        \cup {HttpRequest(m, "malformed", NameEmpty, Zero) : m \in {"POST", "GET"}}
        \cup {HttpRequest("POST", "ok", NameHello, GoInt(1, 21))}    \* input 2^32 + 21

\* The tasks are alike and share nothing but the filesystem and the engine:
\* the first task is given every request, the others a few that keep the
\* engine and the store busy next to it.
BackgroundRequests ==
    {HttpRequest("POST", "ok", NameHello, GoInt(0, 21)),
     HttpRequest("POST", "ok", NameAbi, GoInt(0, -5)),
     HttpRequest("POST", "ok", NameGhost, GoInt(0, 21)),
     HttpRequest("GET", "ok", NameHello, GoInt(0, 21))}
RequestsOf(t) == IF t = DriverTask THEN AllRequests ELSE BackgroundRequests

\* writeJSON(w, status, data) / writeError(w, status, message)
writeError(r, status, message) ==
    [r EXCEPT !.pc = "done", !.status = status, !.nresp = @ + 1,
              !.body = [output |-> Zero, error |-> message,
                        hasOutput |-> FALSE, hasError |-> TRUE, cause |-> NoErr]]

writeOutput(r, status, output) ==
    [r EXCEPT !.pc = "done", !.status = status, !.nresp = @ + 1,
              !.body = [output |-> output, error |-> "nil",
                        hasOutput |-> TRUE, hasError |-> FALSE, cause |-> NoErr]]

\* writeError(w, status, err.Error()): the message is the text of the whole
\* error chain, kept as `cause` (the wrapped message and the numeric code).
writeErrorOf(r, status, err) ==
    [writeError(r, status, err.msg) EXCEPT !.body.cause = err]

\* fmt.Errorf("<stage>: %w", err)
Wrap(stage, err) == Err(stage, err.msg, err.about, err.code)

\* handleRun with the store lookup placed before the name validation.
handleRunHeadMutResolveFirst(r0, h) ==
    LET r == [r0 EXCEPT !.http = h]
        d == [r EXCEPT !.Plugin = h.plugin, !.Input = h.input]
        res == Resolve(ServerStore, d.Plugin)
        looked == [d EXCEPT !.calls = Append(@, "Resolve"), !.fsops = @ + 1]
    IN  IF h.method # "POST"
        THEN writeError(r, StatusMethodNotAllowed, "method not allowed")
        ELSE IF h.body # "ok"
        THEN writeError(r, StatusBadRequest, "invalid JSON")
        ELSE IF res.err # NoErr
        THEN writeError(looked, StatusNotFound, "plugin not found")
        ELSE IF d.Plugin = NameEmpty
        THEN writeError(looked, StatusBadRequest, "plugin name is required")
        ELSE IF ~isValidPluginName(d.Plugin)
        THEN writeError(looked, StatusBadRequest, "invalid plugin name")
        ELSE [looked EXCEPT !.pc = "load", !.pluginPath = res.path]

\* handleRun, from the method check to the Resolve call.
handleRunHead(r0, h) ==
    LET r == [r0 EXCEPT !.http = h]
        d == [r EXCEPT !.Plugin = h.plugin, !.Input = h.input]
        res == Resolve(ServerStore, d.Plugin)
        looked == [d EXCEPT !.calls = Append(@, "Resolve"), !.fsops = @ + 1]
    IN  IF h.method # "POST"
        THEN writeError(r, StatusMethodNotAllowed, "method not allowed")
        ELSE IF h.body # "ok"
        THEN writeError(r, StatusBadRequest, "invalid JSON")
        ELSE IF d.Plugin = NameEmpty
        THEN writeError(d, StatusBadRequest, "plugin name is required")
        ELSE IF ~isValidPluginName(d.Plugin)
        THEN writeError(d, StatusBadRequest, "invalid plugin name")
        ELSE IF res.err # NoErr
        THEN writeError(looked, StatusNotFound, "plugin not found")
        ELSE [looked EXCEPT !.pc = "load", !.pluginPath = res.path]

\* handleRun answering 500 when the deferred Cleanup reported an error.
handleRunTailMutCleanupFails(r) ==
    IF r.panicking THEN [r EXCEPT !.pc = "aborted"]
    ELSE IF r.err # NoErr \/ r.cleanupErr # NoErr
    THEN writeErrorOf(r, StatusInternalServerError, r.err)
    ELSE writeOutput(r, StatusOK, r.output)

\* handleRun, after executePlugin has returned (output, err): the response.
handleRunTail(r) ==
    IF r.panicking THEN [r EXCEPT !.pc = "aborted"]
    ELSE IF r.err # NoErr THEN writeErrorOf(r, StatusInternalServerError, r.err)
    ELSE writeOutput(r, StatusOK, r.output)

\* handleRun answering 404 when LoadPlugin did not find the file.
afterLoadMutNotFound(r, res) ==
    LET called == [r EXCEPT !.calls = Append(@, "LoadPlugin"), !.fsops = @ + 1]
    IN  IF res.err # NoErr /\ res.err.msg = "plugin file not found"
        THEN writeError(called, StatusNotFound, "plugin not found")
        ELSE IF res.err # NoErr
        THEN handleRunTail([called EXCEPT !.err = Wrap("failed to load plugin", res.err)])
        ELSE [called EXCEPT !.pc = "init"]

\* executePlugin after LoadPlugin returned res: an error returns at once, a
\* plugin has its Close deferred.
afterLoad(r, res) ==
    LET called == [r EXCEPT !.calls = Append(@, "LoadPlugin"), !.fsops = @ + 1]
    IN  IF res.err # NoErr
        THEN handleRunTail([called EXCEPT !.err = Wrap("failed to load plugin", res.err)])
        ELSE [called EXCEPT !.pc = "init"]

\* executePlugin calling Close at the end of the success path instead of deferring it.
afterInitMutCloseNotDeferred(r, res) ==
    LET called == [r EXCEPT !.calls = Append(@, "Init")]
    IN  IF res.panic THEN [called EXCEPT !.pc = "close", !.panicking = TRUE]
        ELSE IF res.err # NoErr
        THEN handleRunTail([called EXCEPT !.err = Wrap("failed to initialize plugin", res.err)])
        ELSE [called EXCEPT !.pc = "process"]

\* executePlugin calling Init a second time when the first call failed.
afterInitMutRetry(r, res) ==
    LET called == [r EXCEPT !.calls = Append(@, "Init")]
        first == \A i \in 1..Len(r.calls) : r.calls[i] # "Init"
    IN  IF res.panic THEN [called EXCEPT !.pc = "close", !.panicking = TRUE]
        ELSE IF res.err # NoErr /\ first
        THEN [called EXCEPT !.pc = "init"]
        ELSE IF res.err # NoErr
        THEN [called EXCEPT !.pc = "close",
                            !.err = Wrap("failed to initialize plugin", res.err)]
        ELSE [called EXCEPT !.pc = "process"]

\* executePlugin after Init returned res: an error (or a panic) leaves through
\* the deferred Close, success defers Cleanup.
afterInit(r, res) ==
    LET called == [r EXCEPT !.calls = Append(@, "Init")]
    IN  IF res.panic THEN [called EXCEPT !.pc = "close", !.panicking = TRUE]
        ELSE IF res.err # NoErr
        THEN [called EXCEPT !.pc = "close",
                            !.err = Wrap("failed to initialize plugin", res.err)]
        ELSE [called EXCEPT !.pc = "process"]

\* executePlugin running Cleanup only when Execute succeeded.
afterExecuteMutNoCleanupOnError(r, res) ==
    LET called == [r EXCEPT !.calls = Append(@, "Execute"), !.pc = "cleanup"]
    IN  IF res.panic THEN [called EXCEPT !.panicking = TRUE]
        ELSE IF res.err # NoErr
        THEN [called EXCEPT !.pc = "close", !.err = Wrap("failed to execute plugin", res.err)]
        ELSE [called EXCEPT !.output = res.val]

\* executePlugin after Execute returned res: the results are set and the
\* deferred Cleanup runs next.
afterExecute(r, res) ==
    LET called == [r EXCEPT !.calls = Append(@, "Execute"), !.pc = "cleanup"]
    IN  IF res.panic THEN [called EXCEPT !.panicking = TRUE]
        ELSE IF res.err # NoErr
        THEN [called EXCEPT !.err = Wrap("failed to execute plugin", res.err)]
        ELSE [called EXCEPT !.output = res.val]

\* executePlugin returning the error of the deferred Cleanup in place of its results.
afterCleanupMutErrReturned(r, res) ==
    [r EXCEPT !.calls = Append(@, "Cleanup"), !.pc = "close",
              !.cleanupErr = res.err,
              !.err = IF res.err # NoErr THEN Wrap("failed to clean up plugin", res.err) ELSE @,
              !.output = IF res.err # NoErr THEN Zero ELSE @,
              !.panicking = @ \/ res.panic]

\* The deferred func: _ = plugin.Cleanup(); its error is dropped.
afterCleanup(r, res) ==
    [r EXCEPT !.calls = Append(@, "Cleanup"), !.pc = "close",
              !.cleanupErr = res.err,
              !.panicking = @ \/ res.panic]

\* The deferred plugin.Close(), the return of executePlugin and the response.
afterClose(r) == handleRunTail([r EXCEPT !.calls = Append(@, "Close")])

\* ---- the steps of a request task
Serve(t) ==
    /\ req[t].pc = "idle"
    /\ \E h \in RequestsOf(t) : req' = [req EXCEPT ![t] = handleRunHead(req[t], h)]
    /\ UNCHANGED <<fs, plugin, config, vm, elog, last, arg, ret>>

StepLoad(t) ==
    /\ req[t].pc = "load"
    /\ \E alloc \in AllocOutcomes :
          LET res == LoadPlugin(t, req[t].pluginPath, alloc)
          IN  /\ plugin' = [plugin EXCEPT ![t] = res.plugin]
              /\ config' = [config EXCEPT ![t] = res.config]
              /\ vm' = [vm EXCEPT ![t] = res.vm]
              /\ req' = [req EXCEPT ![t] = afterLoad(req[t], res)]
    /\ UNCHANGED <<fs, elog, last, arg, ret>>

StepInit(t) ==
    /\ req[t].pc = "init"
    /\ \E choice \in EngineChoices(vm[t].module, "init", 0) :
          LET res == Init(plugin[t][1], vm, elog, choice)
          IN  /\ vm' = res.vm
              /\ elog' = res.elog
              /\ req' = [req EXCEPT ![t] = afterInit(req[t], res)]
    /\ UNCHANGED <<fs, plugin, config, last, arg, ret>>

StepExecute(t) ==
    /\ req[t].pc = "process"
    /\ \E choice \in EngineChoices(vm[t].module, "process", ToInt32(req[t].Input)) :
          LET res == Execute(plugin[t][1], req[t].Input, vm, elog, choice)
          IN  /\ vm' = res.vm
              /\ elog' = res.elog
              /\ req' = [req EXCEPT ![t] = afterExecute(req[t], res)]
    /\ UNCHANGED <<fs, plugin, config, last, arg, ret>>

StepCleanup(t) ==
    /\ req[t].pc = "cleanup"
    /\ \E choice \in EngineChoices(vm[t].module, "cleanup", 0) :
          LET res == Cleanup(plugin[t][1], vm, elog, choice)
          IN  /\ vm' = res.vm
              /\ elog' = res.elog
              /\ req' = [req EXCEPT ![t] = afterCleanup(req[t], res)]
    /\ UNCHANGED <<fs, plugin, config, last, arg, ret>>

StepClose(t) ==
    /\ req[t].pc = "close"
    /\ LET res == Close(plugin[t][1], config, vm)
       IN  /\ plugin' = [plugin EXCEPT ![t] = <<res.plugin>>]
           /\ config' = res.config
           /\ vm' = res.vm
           /\ req' = [req EXCEPT ![t] = afterClose(req[t])]
    /\ UNCHANGED <<fs, elog, last, arg, ret>>

\* The environment: the hello binary is removed from, or put back into, the
\* plugin directory while requests are served.
EnvRemove ==
    /\ FsEntry(PluginPath(NameHello)).content # None
    /\ fs' = [fs EXCEPT ![PluginPath(NameHello)].content = None]
    /\ UNCHANGED <<req, plugin, config, vm, elog, last, arg, ret>>

EnvDeploy ==
    /\ FsEntry(PluginPath(NameHello)).content = None
    /\ fs' = [fs EXCEPT ![PluginPath(NameHello)].content = "hello"]
    /\ UNCHANGED <<req, plugin, config, vm, elog, last, arg, ret>>

InitGateway ==
    /\ fs = DeployedFS
    /\ IdleRuntime
    /\ arg = <<>>
    /\ ret = <<>>

Next ==
    \/ \E t \in Tasks : Serve(t)
    \/ \E t \in Tasks : StepLoad(t)
    \/ \E t \in Tasks : StepInit(t)
    \/ \E t \in Tasks : StepExecute(t)
    \/ \E t \in Tasks : StepCleanup(t)
    \/ \E t \in Tasks : StepClose(t)
    \/ EnvRemove
    \/ EnvDeploy

Spec == InitGateway /\ [][Next]_vars

\* The gateway when every engine and filesystem call returns: a task that has
\* a step to take (it is inside handleRun) eventually takes it.
TaskStep(t) ==
    StepLoad(t) \/ StepInit(t) \/ StepExecute(t) \/ StepCleanup(t) \/ StepClose(t)
SpecFair == Spec /\ \A t \in Tasks : WF_vars(TaskStep(t))

\* -------------------------------------------------- claims on the gateway
AllowedChars == (65..90) \cup (97..122) \cup (48..57) \cup {95, 45}
NameChars(name) == {name[i] : i \in 1..Len(name)}

Finished(t) == req[t].pc \in {"done", "aborted"}
Count(seq, x) == Cardinality({i \in 1..Len(seq) : seq[i] = x})
\* The Request was decoded: the method was POST and the body decodable JSON.
Decoded(t) == req[t].pc # "idle" /\ req[t].http.method = "POST" /\ req[t].http.body = "ok"
NameIsValid(name) == name # <<>> /\ NameChars(name) \subseteq AllowedChars
LoadSucceeded(t) == plugin[t] # NilPlugin

\* C1: for every request handled by executePlugin, whatever stage fails (load,
\* init, process, cleanup) or none, every engine handle (configuration, VM)
\* created for the request has been released exactly once when executePlugin
\* has returned, and when LoadPlugin succeeded Close was called on the plugin.
C1_ExecutePluginReleases ==
    \A t \in Tasks :
        /\ config[t].released <= config[t].created
        /\ vm[t].released <= vm[t].created
        /\ (Finished(t) /\ "LoadPlugin" \in {req[t].calls[i] : i \in 1..Len(req[t].calls)}) =>
              /\ config[t].released = config[t].created
              /\ vm[t].released = vm[t].created
              /\ LoadSucceeded(t) =>
                    /\ Count(req[t].calls, "Close") = 1
                    /\ plugin[t][1].vm = NilHandle /\ plugin[t][1].config = NilHandle
                    /\ config[t].released = 1 /\ vm[t].released = 1

C1_Witness ==
    \E t \in Tasks :
        /\ req[t].pc = "done"
        /\ req[t].err.msg = "failed to initialize plugin"
        /\ config[t].released = 1 /\ vm[t].released = 1

\* C7: for every request whose plugin name is empty or holds a character
\* outside [A-Za-z0-9_-], handleRun answers 400 without calling Resolve,
\* without a filesystem access and without creating an engine handle.  (The
\* plugin name of a request is the Plugin field decoded from the body of a
\* POST; for a name carried by any other request the absence of store,
\* filesystem and engine activity is checked as well.)
C7_InvalidNameNeverResolved ==
    \A t \in Tasks :
        (req[t].pc # "idle" /\ ~NameIsValid(req[t].http.plugin)) =>
            /\ req[t].calls = <<>>
            /\ req[t].fsops = 0
            /\ config[t].created = 0 /\ vm[t].created = 0
            /\ plugin[t] = NilPlugin
            /\ elog[t] = <<>>
            /\ req[t].pc = "done"
            /\ Decoded(t) =>
                  /\ req[t].Plugin = req[t].http.plugin
                  /\ req[t].status = StatusBadRequest
                  /\ req[t].body.hasError /\ ~req[t].body.hasOutput

C7_Witness ==
    \E t \in Tasks :
        /\ Decoded(t)
        /\ req[t].Plugin = NameTraversal
        /\ req[t].status = StatusBadRequest
        /\ req[t].body.error = "invalid plugin name"

\* The status the order of checks gives a finished request: method, body,
\* empty name, invalid name, store lookup, then the stages of executePlugin.
StatusByFirstFailure(t, stageFailed) ==
    LET r == req[t]
    IN  IF r.http.method # "POST" THEN StatusMethodNotAllowed
        ELSE IF r.http.body # "ok" THEN StatusBadRequest
        ELSE IF r.http.plugin = <<>> THEN StatusBadRequest
        ELSE IF ~NameIsValid(r.http.plugin) THEN StatusBadRequest
        ELSE IF r.pluginPath = EmptyPath THEN StatusNotFound
        ELSE IF stageFailed THEN StatusInternalServerError
        ELSE StatusOK

\* C10 as stated: ... any load, init, process or cleanup failure -> 500, and
\* 200 only when none fails.
C10_AsStated ==
    \A t \in Tasks :
        req[t].pc = "done" =>
            req[t].status =
                StatusByFirstFailure(t, req[t].err # NoErr \/ req[t].cleanupErr # NoErr)

\* C10 amended: the status of every response of handleRun is determined by the
\* first check that fails, in this order: method other than POST -> 405;
\* undecodable body -> 400; empty name -> 400; invalid name -> 400; plugin not
\* found by the store -> 404; any load, init or process failure -> 500; and
\* 200 when none of these fails, whether or not cleanup fails.
C10_StatusByFirstFailure ==
    \A t \in Tasks :
        req[t].pc = "done" =>
            /\ req[t].nresp = 1
            /\ req[t].status = StatusByFirstFailure(t, req[t].err # NoErr)
            /\ req[t].err # NoErr =>
                  req[t].err.msg \in {"failed to load plugin", "failed to initialize plugin",
                                      "failed to execute plugin"}

C10_Witness ==
    \E t \in Tasks :
        /\ req[t].pc = "done"
        /\ req[t].status = StatusOK
        /\ req[t].cleanupErr # NoErr
        /\ req[t].calls = <<"Resolve", "LoadPlugin", "Init", "Execute", "Cleanup", "Close">>

\* C11 as stated: every request handled by handleRun produces exactly one
\* externally visible outcome: exactly one response is written, and it
\* carries either an output value (status 200) or a single error message
\* (non-200 status), never both and never neither.
C11_AsStated ==
    \A t \in Tasks :
        /\ req[t].nresp <= 1
        /\ Finished(t) =>
              /\ req[t].nresp = 1
              /\ \/ (req[t].status = StatusOK /\ req[t].body.hasOutput /\ ~req[t].body.hasError)
                 \/ (req[t].status # StatusOK /\ req[t].body.hasError /\ ~req[t].body.hasOutput)

\* What the `export` of task t's module returned when it was invoked: <<v>>
\* for an int32 v, <<>> when it was not invoked or returned anything else.
SeenI32(t, export) ==
    LET seen == vm[t].seen[export]
    IN  IF Len(seen) = 1 /\ ~seen[1].err /\ Len(seen[1].res) >= 1 /\ seen[1].res[1].type = "i32"
        THEN <<seen[1].res[1].v>>
        ELSE <<>>
HasCalled(t, fn) == fn \in {req[t].calls[i] : i \in 1..Len(req[t].calls)}

ReportedVersion(kind) ==
    CASE kind = "abi" -> <<AbiVersion>>
      [] kind = "abi2" -> <<NextMajorVersion>>
      [] OTHER -> <<>>
MajorMismatch(kind) ==
    /\ ReportedVersion(kind) # <<>>
    /\ ReportedVersion(kind)[1] \div 10000 # RequiredMajor

\* C13 as stated, on the gateway's path: a plugin whose get_abi_version export
\* reports a major version different from the required major 1 (20000) never
\* has its init export invoked and never reaches the Initialized state.
C13_AsStated ==
    \A t \in Tasks :
        MajorMismatch(vm[t].module) =>
            /\ vm[t].seen["init"] = <<>>
            /\ vm[t].inst.initialized = 0

\* C16: Init returns nil exactly when the init export returns 0; for every
\* non-zero return code (negative or positive), every engine failure and a
\* missing return value it returns an error; and in executePlugin a failed
\* Init means that neither process nor cleanup is invoked on that plugin
\* while Close still is, the request ending in a 500 response.
C16_InitNilOnlyOnZero ==
    \A t \in Tasks :
        LET seen == vm[t].seen["init"]
            code == SeenI32(t, "init")
            failed == seen[1].err \/ Len(seen[1].res) = 0 \/ (code # <<>> /\ code[1] # ABISuccess)
        IN  seen # <<>> =>
              /\ code = <<ABISuccess>> =>
                    /\ req[t].err.msg # "failed to initialize plugin"
                    /\ req[t].pc = "process" \/ vm[t].seen["process"] # <<>>
              /\ failed =>
                    /\ req[t].err.msg = "failed to initialize plugin"
                    /\ code # <<>> => req[t].err.code = code[1]
                    /\ ~req[t].panicking
                    /\ vm[t].seen["process"] = <<>> /\ vm[t].seen["cleanup"] = <<>>
                    /\ req[t].pc \in {"close", "done"}
                    /\ req[t].pc = "done" =>
                          /\ Count(req[t].calls, "Close") = 1
                          /\ vm[t].released = 1 /\ config[t].released = 1
                          /\ req[t].status = StatusInternalServerError

C16_Witness ==
    \E t \in Tasks :
        /\ SeenI32(t, "init") = <<5>>
        /\ req[t].pc = "done"
        /\ req[t].status = StatusInternalServerError
        /\ req[t].err.code = 5
        /\ req[t].calls = <<"Resolve", "LoadPlugin", "Init", "Close">>

\* C17: for every int32 value r returned by the process export, Execute
\* returns (r, nil) when r >= 0 (r = 0 included) and (0, error) carrying the
\* numeric code r when r < 0; at the gateway a negative code gives a 500
\* response whose message holds the error-code text and the code, and no
\* output.
C17_NegativeIsError ==
    \A t \in Tasks :
        LET r == SeenI32(t, "process")
        IN  r # <<>> =>
              IF r[1] >= 0
              THEN /\ req[t].err = NoErr
                   /\ req[t].output = FromInt32(r[1])
                   /\ req[t].pc = "done" => (req[t].status = StatusOK /\ req[t].body.output = FromInt32(r[1]))
              ELSE /\ req[t].output = Zero
                   /\ req[t].err.msg = "failed to execute plugin"
                   /\ req[t].err.wraps = "process() returned error code"
                   /\ req[t].err.code = r[1]
                   /\ req[t].pc = "done" =>
                         /\ req[t].status = StatusInternalServerError
                         /\ req[t].body.hasError /\ ~req[t].body.hasOutput
                         /\ req[t].body.cause.wraps = "process() returned error code"
                         /\ req[t].body.cause.code = r[1]

C17_Witness ==
    \E t, u \in Tasks :
        /\ SeenI32(t, "process") = <<0>>
        /\ req[t].pc = "done" /\ req[t].status = StatusOK /\ req[t].body.output = Zero
        /\ SeenI32(u, "process") = <<ABIErrorInvalidInput>>
        /\ req[u].pc = "done" /\ req[u].status = StatusInternalServerError
        /\ req[u].body.cause.code = ABIErrorInvalidInput

\* A request served alone: executePlugin(path, input) on a module of `kind`
\* with no other task in the process, from Init to the deferred Close.
DeterministicKinds == {"hello", "abi", "abi2", "plugin"}
AloneHeap(kind) ==
    [h \in Tasks |-> IF h = DriverTask THEN [NoVm EXCEPT !.created = 1, !.module = kind] ELSE NoVm]
AloneResult(kind, path, input) ==
    LET p == [path |-> path, vm |-> DriverTask, config |-> DriverTask]
        r0 == [IdleRequest EXCEPT !.pc = "init", !.Input = input, !.pluginPath = path]
        ri == Init(p, AloneHeap(kind), [h \in Tasks |-> <<>>], TRUE)
        r1 == afterInit(r0, ri)
        re == Execute(p, input, ri.vm, ri.elog, TRUE)
        r2 == afterExecute(r1, re)
        rc == Cleanup(p, re.vm, re.elog, TRUE)
    IN  IF r1.pc = "close" THEN r1 ELSE afterCleanup(r2, rc)
AloneResponse(kind, path, input) == afterClose(AloneResult(kind, path, input))

\* C19: requests against the same plugin name that run concurrently, in any
\* interleaving, each get the result and the response they get when run
\* alone: no request's init, process or cleanup changes another's result.
C19_NoInterference ==
    \A t \in Tasks :
        (HasCalled(t, "Init") /\ vm[t].module \in DeterministicKinds) =>
            LET alone == AloneResult(vm[t].module, req[t].pluginPath, req[t].Input)
                resp == AloneResponse(vm[t].module, req[t].pluginPath, req[t].Input)
            IN  /\ req[t].pc = "close" =>
                      (req[t].output = alone.output /\ req[t].err = alone.err)
                /\ req[t].pc = "done" =>
                      (req[t].status = resp.status /\ req[t].body = resp.body)

C19_Witness ==
    \E t, u \in Tasks :
        /\ t # u
        /\ req[t].Plugin = NameHello /\ req[u].Plugin = NameHello
        /\ req[t].pc = "close" /\ HasCalled(t, "Cleanup") /\ req[t].output = GoInt(0, 43)
        /\ req[u].pc = "close" /\ HasCalled(u, "Cleanup") /\ req[u].output = GoInt(0, 43)

\* The engine calls task t issued through its Plugin, in order.
ExportOf(fn) ==
    CASE fn = "Init" -> "init" [] fn = "Execute" -> "process" [] fn = "Cleanup" -> "cleanup"
IssuedBy(t) ==
    LET c == SelectSeq(req[t].calls, LAMBDA fn : fn \in {"Init", "Execute", "Cleanup"})
    IN  [i \in 1..Len(c) |-> ExportOf(c[i])]
Holds(t) == plugin[t] # NilPlugin /\ plugin[t][1].vm # NilHandle

\* C20: each request loads its own Plugin, never a pooled one: a Plugin held
\* by a task refers to the VM that task's LoadPlugin created, no two tasks
\* hold the same one, the engine calls a VM received are exactly those its
\* loader issued, and no VM or configuration is released twice.
C20_OnePluginPerRequest ==
    \A t \in Tasks :
        /\ Holds(t) => (plugin[t][1].vm = t /\ plugin[t][1].config = t)
        /\ \A u \in Tasks \ {t} :
              (Holds(t) /\ Holds(u)) => plugin[t][1].vm # plugin[u][1].vm
        /\ elog[t] = IssuedBy(t)
        /\ vm[t].released <= 1
        /\ config[t].released <= 1
        /\ (vm[t].module # None /\ vm[t].released = 1) => HasCalled(t, "Close")

C20_Witness ==
    \E t, u \in Tasks :
        /\ t # u
        /\ req[t].Plugin = req[u].Plugin
        /\ Holds(t) /\ req[t].pc = "cleanup"
        /\ Holds(u) /\ req[u].pc = "process"

\* C27: within one request nothing is retried or repeated: Resolve is called
\* at most once, and LoadPlugin, the init export, the process export and the
\* cleanup export are each invoked at most once, whatever errors occur.
C27_NothingRetried ==
    \A t \in Tasks :
        /\ \A fn \in {"Resolve", "LoadPlugin", "Init", "Execute", "Cleanup", "Close"} :
              Count(req[t].calls, fn) <= 1
        /\ \A e \in Exports : Count(elog[t], e) <= 1
        /\ vm[t].created <= 1 /\ config[t].created <= 1

C27_Witness ==
    \E t \in Tasks :
        /\ req[t].pc = "done"
        /\ req[t].status = StatusInternalServerError
        /\ req[t].err.msg = "failed to initialize plugin"
        /\ req[t].calls = <<"Resolve", "LoadPlugin", "Init", "Close">>
        /\ elog[t] = <<"init">>

\* C28 as stated: assuming every engine call returns, every request
\* eventually gets its response, and every request whose load succeeded
\* eventually reaches the release step (Close).
C28_AsStated ==
    \A t \in Tasks :
        /\ (req[t].pc # "idle") ~> (req[t].nresp = 1)
        /\ LoadSucceeded(t) ~> HasCalled(t, "Close")

\* C29 as stated: when an engine call traps during init, process or cleanup,
\* the failure is returned as an error and the trap is fatal to the session:
\* the trapped call is the last export invoked on that instance.
TrappedIn(t, export) == vm[t].seen[export] = <<Trapped>>
C29_AsStated ==
    \A t \in Tasks : \A e \in {"init", "process", "cleanup"} :
        TrappedIn(t, e) =>
            /\ elog[t] # <<>> /\ elog[t][Len(elog[t])] = e
            /\ e = "init" => (req[t].err.msg = "failed to initialize plugin" /\ req[t].err.wraps = "failed to execute init()")
            /\ e = "process" => (req[t].err.msg = "failed to execute plugin" /\ req[t].err.wraps = "failed to execute process()")
            /\ e = "cleanup" => req[t].cleanupErr.msg = "failed to execute cleanup()"

\* C30: in executePlugin the calls of one request occur in the fixed order
\* load, init, process, cleanup, release: cleanup is invoked if and only if
\* Init succeeded, after the process call has returned (whether it succeeded
\* or failed), and always before Close, so never on a closed plugin.
IsPrefix(s, full) == Len(s) <= Len(full) /\ \A i \in 1..Len(s) : s[i] = full[i]
FullLifecycle == <<"Resolve", "LoadPlugin", "Init", "Execute", "Cleanup", "Close">>
C30_FixedOrder ==
    \A t \in Tasks :
        /\ \/ IsPrefix(req[t].calls, FullLifecycle)
           \/ req[t].calls = <<"Resolve", "LoadPlugin", "Init", "Close">>
        /\ IsPrefix(elog[t], <<"init", "process", "cleanup">>)
        /\ HasCalled(t, "Close") =>
              (HasCalled(t, "Cleanup") <=> SeenI32(t, "init") = <<ABISuccess>>)
        /\ HasCalled(t, "Cleanup") =>
              /\ Count(elog[t], "cleanup") = 1
              /\ req[t].cleanupErr # ErrClosed
        /\ req[t].pc = "cleanup" => (vm[t].released = 0 /\ plugin[t][1].vm # NilHandle)

C30_Witness ==
    \E t \in Tasks :
        /\ req[t].pc = "done"
        /\ req[t].err.msg = "failed to execute plugin"
        /\ req[t].calls = FullLifecycle
        /\ elog[t] = <<"init", "process", "cleanup">>

\* C36: handleRun answers 404 exactly when the store's Resolve returns an
\* error, of any kind (absent binary or access failure), and then no engine
\* handle is created and no export is called; when the binary disappears
\* after Resolve succeeded and before LoadPlugin checks it, the request ends
\* with a 500 load failure, never 404.
C36_NotFoundOnlyFromResolve ==
    [][ \A t \in Tasks :
          /\ ( /\ req[t].pc = "idle" /\ req'[t].pc # "idle"
               /\ req'[t].http.method = "POST" /\ req'[t].http.body = "ok"
               /\ NameIsValid(req'[t].http.plugin) )
             => ( (req'[t].pc = "done" /\ req'[t].status = StatusNotFound)
                    <=> Resolve(ServerStore, req'[t].http.plugin).err # NoErr )
          /\ req'[t].status = StatusNotFound =>
                /\ req'[t].pc = "done"
                /\ req'[t].calls = <<"Resolve">>
                /\ vm'[t].created = 0 /\ config'[t].created = 0
                /\ elog'[t] = <<>>
          /\ ( /\ req[t].pc = "load" /\ req'[t].pc # "load"
               /\ Stat(req[t].pluginPath) # "ok" )
             => /\ req'[t].pc = "done"
                /\ req'[t].status = StatusInternalServerError
                /\ req'[t].err.msg = "failed to load plugin"
                /\ req'[t].err.wraps = "plugin file not found" ]_vars

C36_Witness ==
    \E t, u \in Tasks :
        /\ req[t].pc = "done" /\ req[t].Plugin = NameLocked
        /\ req[t].status = StatusNotFound
        /\ req[u].pc = "done" /\ req[u].Plugin = NameHello
        /\ req[u].status = StatusInternalServerError
        /\ req[u].err.wraps = "plugin file not found"
        /\ req[u].calls = <<"Resolve", "LoadPlugin">>

\* C37: Execute passes its Go int input to the engine as a 32-bit value: an
\* input outside the int32 range is reduced modulo 2^32, so a request with
\* input x + 2^32 gets the result of the request with input x, and is not
\* rejected.
C37_InputReducedMod32 ==
    \A t \in Tasks :
        (Decoded(t) /\ req[t].Input.hi # 0) =>
            LET reduced == GoInt(0, req[t].Input.lo)
                kind == vm[t].module
            IN  /\ req[t].pc = "done" => req[t].status # StatusBadRequest
                /\ (HasCalled(t, "Init") /\ kind \in DeterministicKinds) =>
                      /\ req[t].pc = "close" =>
                            /\ req[t].output = AloneResult(kind, req[t].pluginPath, reduced).output
                            /\ req[t].err = AloneResult(kind, req[t].pluginPath, reduced).err
                      /\ req[t].pc = "done" =>
                            /\ req[t].status = AloneResponse(kind, req[t].pluginPath, reduced).status
                            /\ req[t].body = AloneResponse(kind, req[t].pluginPath, reduced).body
                            /\ req[t].body.output = FromInt32(Mul2Add1(req[t].Input.lo))

C37_Witness ==
    \E t \in Tasks :
        /\ req[t].Input = GoInt(1, 21)
        /\ req[t].pc = "done"
        /\ req[t].status = StatusOK
        /\ req[t].body.output = GoInt(0, 43)

\* --------------------------------------------- claims on the standalone host
HostVm == vm[DriverTask]
VersionAbsent == HostVm.seen["get_abi_version"] # <<>> /\ HostVm.seen["get_abi_version"][1].err

DriverPlugin == plugin[DriverTask][1]
DriverLoaded == plugin[DriverTask] # NilPlugin
DriverModule == vm[DriverTask].module

\* C2: Close is idempotent: after N >= 1 Close calls on a loaded plugin vm and
\* config are both nil, the engine's VM release and configuration release
\* have each been invoked exactly once in total, and no Close call panicked.
C2_CloseIdempotent ==
    (DriverLoaded /\ last.ncloses >= 1) =>
        /\ DriverPlugin.vm = NilHandle
        /\ DriverPlugin.config = NilHandle
        /\ vm[DriverTask].released = 1
        /\ config[DriverTask].released = 1
        /\ last.op = "Close" => ~last.panic

C2_Witness ==
    /\ DriverLoaded
    /\ last.ncloses >= 3
    /\ last.op = "Close"

\* C3: after Close, every later Init, Execute or Cleanup call returns the
\* error "plugin is closed" (Execute with result 0), makes no engine call and
\* leaves the plugin closed.
C3_ClosedRejects ==
    (last.closedBefore /\ last.op \in {"Init", "Execute", "Cleanup"}) =>
        /\ last.err = ErrClosed
        /\ last.err.msg = "plugin is closed"
        /\ last.val = Zero
        /\ ~last.panic
        /\ elog[DriverTask] = last.logBefore
        /\ DriverPlugin.vm = NilHandle /\ DriverPlugin.config = NilHandle
        /\ vm[DriverTask].released = 1 /\ config[DriverTask].released = 1

C3_Witness ==
    /\ last.closedBefore
    /\ last.op = "Execute"
    /\ last.readyBefore = FALSE
    /\ Len(last.logBefore) >= 2

\* C4 as stated: in any sequence of Init, Execute, Cleanup and Close calls on
\* one loaded plugin, an Execute call returns an error and result 0 (never a
\* computed value, never a crash) whenever no Init has succeeded since load,
\* or the last successful Init has been followed by a Cleanup or by Close.
\* Stated for the plugins whose source the repository holds, which is where
\* it already fails.
RepositoryPlugins == {"hello", "abi", "plugin"}
C4_AsStated ==
    (DriverLoaded /\ DriverModule \in RepositoryPlugins
        /\ last.op = "Execute" /\ ~last.readyBefore) =>
        /\ last.err # NoErr
        /\ last.val = Zero
        /\ ~last.panic

\* C5 as stated: an Execute call made in a state other than Initialized fails
\* immediately in the host, and the process export is not invoked on the
\* engine for that call.
C5_AsStated ==
    (DriverLoaded /\ last.op = "Execute" /\ ~last.readyBefore) =>
        /\ last.err # NoErr
        /\ elog[DriverTask] = last.logBefore

\* C21 as stated: Cleanup on a loaded plugin on which Init was never called
\* returns an error, does not crash and leaves the plugin open.
InitNeverCalled == \A i \in 1..Len(last.logBefore) : last.logBefore[i] # "init"
C21_AsStated ==
    (DriverLoaded /\ DriverModule \in RepositoryPlugins
        /\ last.op = "Cleanup" /\ ~last.closedBefore /\ InitNeverCalled) =>
        /\ last.err # NoErr
        /\ ~last.panic
        /\ DriverPlugin.vm # NilHandle

\* C22 as stated: Close can be called in every session state (freshly
\* loaded, after a failed Init, initialized, after Cleanup, already closed,
\* after a failed load); it completes without panic and leaves no engine
\* handle in the plugin.
C22_AsStated ==
    (last.op = "Close") =>
        /\ ~last.panic
        /\ DriverLoaded => (DriverPlugin.vm = NilHandle /\ DriverPlugin.config = NilHandle)

\* C24: when the os.Stat check of LoadPlugin fails for any reason, absence
\* or not (permission denied), LoadPlugin returns a nil plugin and an error
\* "plugin file not found" wrapping the Stat error, and no engine handle
\* (configuration, VM) has been created.
C24_StatFailureIsNotFound ==
    (last.op = "LoadPlugin" /\ Stat(last.path) # "ok") =>
        /\ plugin[DriverTask] = NilPlugin
        /\ last.err.msg = "plugin file not found"
        /\ last.err.wraps = Stat(last.path)
        /\ vm[DriverTask].created = 0
        /\ config[DriverTask].created = 0

C24_Witness ==
    /\ last.op = "LoadPlugin"
    /\ Stat(last.path) = "EACCES"
    /\ last.alloc = "ok"
    /\ last.err.msg = "plugin file not found"
    /\ plugin[DriverTask] = NilPlugin

\* C26 as stated: every negative return code the host surfaces from init,
\* process or cleanup is one of -1 NotInitialized, -2 AlreadyInitialized,
\* -3 InvalidInput, -4 Internal.  Stated for the plugins whose source the
\* repository holds, which is where it already fails.
ErrorCodeEnumeration ==
    {ABIErrorNotInitialized, ABIErrorAlreadyInitialized, ABIErrorInvalidInput, ABIErrorInternal}
C26_AsStated ==
    (DriverLoaded /\ DriverModule \in RepositoryPlugins
        /\ last.op \in {"Init", "Execute", "Cleanup"} /\ last.err.code < 0) =>
        last.err.code \in ErrorCodeEnumeration

\* One more call by the driver, and an Execute call that returned a negative
\* code reported by the plugin, on a repository plugin that was Initialized.
DriverStep == last'.nops = last.nops + 1
StatePreserved ==
    /\ vm'[DriverTask].inst.initialized = vm[DriverTask].inst.initialized
    /\ plugin' = plugin
    /\ vm'[DriverTask].released = vm[DriverTask].released
    /\ last'.ready
ExecuteFailedWithCode ==
    /\ DriverLoaded /\ DriverModule \in RepositoryPlugins /\ last.ready
    /\ DriverStep /\ last'.op = "Execute"
    /\ last'.err.msg = "process() returned error code" /\ last'.err.code < 0
FollowingExecuteWorks ==
    ( /\ DriverLoaded /\ DriverModule \in RepositoryPlugins /\ last.ready
      /\ last.op = "Execute" /\ last.err.msg = "process() returned error code"
      /\ DriverStep /\ last'.op = "Execute" /\ last'.input = GoInt(0, 21) )
    => (last'.val = GoInt(0, 43) /\ last'.err = NoErr)

\* C31 as stated: an Execute call that fails with a plugin-reported negative
\* code leaves the session Initialized (initialized flag and host handles
\* unchanged), a following Execute with a valid input returns its computed
\* value, and the failed call does not increment the plugin's call count.
C31_AsStated ==
    [][ /\ ExecuteFailedWithCode =>
              /\ StatePreserved
              /\ vm'[DriverTask].inst.call_count = vm[DriverTask].inst.call_count
        /\ FollowingExecuteWorks ]_vars

\* C31 amended: the same, except that a call failing because (input * 2) + 1
\* overflowed has been counted: the call count is unchanged by a failed call
\* whose input is rejected (code -3), and incremented by one when the failure
\* is the overflow (code -4, or the wrapped value).
C31_FailedExecuteKeepsSession ==
    [][ /\ ExecuteFailedWithCode =>
              /\ StatePreserved
              /\ vm'[DriverTask].inst.call_count =
                     IF DriverModule = "abi" /\ ToInt32(last'.input) > HalfMax
                     THEN vm[DriverTask].inst.call_count + 1
                     ELSE vm[DriverTask].inst.call_count
        /\ FollowingExecuteWorks ]_vars

C31_Witness ==
    /\ DriverLoaded /\ DriverModule = "abi"
    /\ elog[DriverTask] = <<"init", "process", "process">>
    /\ last.op = "Execute" /\ last.val = GoInt(0, 43) /\ last.err = NoErr
    /\ vm[DriverTask].inst.call_count = 1

\* C32: a second Init on the reference ABI plugin with no Cleanup in between
\* returns an error carrying code -2 (ABI_ERROR_ALREADY_INITIALIZED) and
\* leaves the plugin initialized with its call count unchanged, so Execute
\* keeps working afterwards.
C32_DoubleInitRejected ==
    [][ /\ ( /\ DriverLoaded /\ DriverModule = "abi" /\ last.ready
             /\ DriverStep /\ last'.op = "Init" )
           => /\ last'.err.msg = "init() returned error code"
              /\ last'.err.code = ABIErrorAlreadyInitialized
              /\ last'.err.wraps = "ABI_ERROR_ALREADY_INITIALIZED"
              /\ vm'[DriverTask].inst = vm[DriverTask].inst
              /\ vm'[DriverTask].inst.initialized = 1
              /\ plugin' = plugin
              /\ last'.ready
        /\ ( /\ DriverLoaded /\ DriverModule = "abi"
             /\ last.op = "Init" /\ last.err.code = ABIErrorAlreadyInitialized
             /\ DriverStep /\ last'.op = "Execute" /\ last'.input = GoInt(0, 21) )
           => /\ last'.val = GoInt(0, 43) /\ last'.err = NoErr
              /\ vm'[DriverTask].inst.call_count = vm[DriverTask].inst.call_count + 1 ]_vars

C32_Witness ==
    /\ DriverLoaded /\ DriverModule = "abi"
    /\ elog[DriverTask] = <<"init", "process", "init", "process">>
    /\ last.op = "Execute" /\ last.val = GoInt(0, 43) /\ last.err = NoErr
    /\ vm[DriverTask].inst.call_count = 2

\* C33: a session is resettable: after Init and then Cleanup both succeeded
\* the plugin is in the state it had right after load, a new Init succeeds,
\* and the plugin is then as after its first Init (call count 0, Execute
\* returns the computed value).
AfterFirstInit(kind) == VmExecute([NoVm EXCEPT !.module = kind], "init", 0, TRUE).vm.inst
C33_Resettable ==
    [][ /\ ( /\ DriverLoaded /\ DriverModule \in {"hello", "abi"} /\ last.ready
             /\ DriverStep /\ last'.op = "Cleanup" )
           => /\ last'.err = NoErr
              /\ vm'[DriverTask].inst = FreshInstance
              /\ plugin' = plugin
        /\ ( /\ DriverLoaded /\ DriverModule \in {"hello", "abi"}
             /\ last.op = "Cleanup" /\ last.readyBefore /\ last.err = NoErr
             /\ DriverStep /\ last'.op = "Init" )
           => /\ last'.err = NoErr
              /\ vm'[DriverTask].inst = AfterFirstInit(DriverModule)
              /\ vm'[DriverTask].inst.call_count = 0
              /\ last'.ready
        /\ ( /\ DriverLoaded /\ DriverModule \in {"hello", "abi"}
             /\ last.op = "Init" /\ last.err = NoErr
             /\ DriverStep /\ last'.op = "Execute" /\ last'.input = GoInt(0, 21) )
           => /\ last'.val = GoInt(0, 43) /\ last'.err = NoErr
              /\ DriverModule = "abi" => vm'[DriverTask].inst.call_count = 1 ]_vars

C33_Witness ==
    /\ DriverLoaded /\ DriverModule = "abi"
    /\ elog[DriverTask] = <<"init", "process", "cleanup", "init">>
    /\ last.op = "Init" /\ last.err = NoErr
    /\ vm[DriverTask].inst = [initialized |-> 1, call_count |-> 0]

\* C34: the plugin's cleanup is safe to call multiple times: after one
\* successful cleanup, any further cleanup call returns a value (it does not
\* trap) and leaves the plugin state unchanged: not initialized, call count 0.
CleanedUp ==
    /\ DriverLoaded /\ DriverModule \in {"hello", "abi"}
    /\ DriverPlugin.vm # NilHandle
    /\ Count(elog[DriverTask], "init") >= 1
    /\ Count(elog[DriverTask], "cleanup") >= 1
    /\ ~last.ready
C34_CleanupRepeatable ==
    [][ (CleanedUp /\ DriverStep /\ last'.op = "Cleanup") =>
            /\ vm'[DriverTask].inst = vm[DriverTask].inst
            /\ vm'[DriverTask].inst = FreshInstance
            /\ ~last'.panic
            /\ SeenI32(DriverTask, "cleanup")' \in {<<ABISuccess>>, <<ABIErrorNotInitialized>>}
            /\ last'.err.wraps # "engine" ]_vars

C34_Witness ==
    /\ DriverLoaded /\ DriverModule = "abi"
    /\ elog[DriverTask] = <<"init", "cleanup", "cleanup", "cleanup">>
    /\ vm[DriverTask].inst = FreshInstance
    /\ last.err.code = ABIErrorNotInitialized

\* C38 as stated: for every int32 input x >= 0 on an initialized reference
\* ABI plugin, process returns 2x+1 when that fits in a non-negative int32 and
\* ABI_ERROR_INTERNAL (-4) when 2x+1 wraps to a negative 32-bit value; it
\* never returns a negative value outside the defined error codes, and the
\* host never reports a wrapped value as a result.
C38_AsStated ==
    (DriverLoaded /\ DriverModule = "abi" /\ last.op = "Execute"
        /\ last.readyBefore /\ last.input.hi = 0 /\ last.input.lo >= 0) =>
        IF last.input.lo <= HalfMax
        THEN last.val = GoInt(0, Mul2Add1(last.input.lo)) /\ last.err = NoErr
        ELSE /\ last.err.msg = "process() returned error code"
             /\ last.err.code = ABIErrorInternal
             /\ last.val = Zero

\* C6: when LoadPlugin fails at any step it returns a nil plugin and an
\* error, and every engine handle acquired before the failing step has been
\* released exactly once; a missing file gives "plugin file not found", an
\* invalid binary "failed to load WASM file".
C6_LoadFailureReleases ==
    (last.op = "LoadPlugin") =>
        LET e == FsEntry(last.path)
            failed == last.err # NoErr
        IN  /\ failed = (~DriverLoaded)
            /\ failed = (~e.access \/ e.content \notin ModuleKinds \/ last.alloc # "ok")
            /\ failed =>
                  /\ config[DriverTask].released = config[DriverTask].created
                  /\ vm[DriverTask].released = vm[DriverTask].created
            /\ (e.access /\ e.content = None) => last.err.msg = "plugin file not found"
            /\ (e.access /\ e.content = "junk" /\ last.alloc = "ok") =>
                  /\ last.err.msg = "failed to load WASM file"
                  /\ config[DriverTask].created = 1 /\ vm[DriverTask].created = 1

C6_Witness ==
    /\ last.op = "LoadPlugin"
    /\ last.err.msg = "failed to load WASM file"
    /\ plugin[DriverTask] = NilPlugin
    /\ vm[DriverTask].released = 1
    /\ config[DriverTask].released = 1

\* 2x + 1 of a Go int, without the 32-bit limit, and x >= 0.
Twice1(n) ==
    GoInt(2 * n.hi + (IF n.lo > HalfMax THEN 1 ELSE IF n.lo < -HalfMax - 1 THEN -1 ELSE 0),
          Mul2Add1(n.lo))
NonNegative(n) == n.hi > 0 \/ (n.hi = 0 /\ n.lo >= 0)

\* C18: after a successful Init on the hello plugin, every Execute(x) with
\* x >= 0 returns 2x + 1 and no error, whatever calls were made before.
C18_AsStated ==
    ( /\ DriverLoaded /\ DriverModule = "hello"
      /\ last.op = "Execute" /\ last.readyBefore
      /\ NonNegative(last.input) )
    => (last.val = Twice1(last.input) /\ last.err = NoErr)

\* ===================================================== pure-function checks
\* --- isValidPluginName over every name of up to MaxNameLen characters
NameInputs == SeqsUpTo(Alphabet, MaxNameLen)

InitName ==
    /\ arg \in [name : NameInputs]
    /\ ret = <<>>
    /\ fs = <<>>
    /\ IdleRuntime

CallIsValidPluginName ==
    /\ ret = <<>>
    /\ ret' = <<isValidPluginName(arg.name)>>
    /\ UNCHANGED <<fs, req, plugin, config, vm, elog, last, arg>>

SpecName == InitName /\ [][CallIsValidPluginName]_vars

\* --- Resolve over stores, names and filesystem states
Roots == {RootLocal, RootPlain, RootFluid, RootEmpty}
Stores == {LocalPluginStore(r) : r \in Roots} \cup {FluidPluginStore(r) : r \in Roots}
ResolveNames == {NameHello, NameGhost}
FileStates == [content : {None, "hello"}, access : BOOLEAN]
ResolvePaths == {JoinName(r, NameHello) : r \in Roots}

InitResolve ==
    /\ fs \in [ResolvePaths -> FileStates]
    /\ arg \in [store : Stores, name : ResolveNames]
    /\ ret = <<>>
    /\ IdleRuntime

CallResolve ==
    /\ ret = <<>>
    /\ ret' = <<Resolve(arg.store, arg.name)>>
    /\ UNCHANGED <<fs, req, plugin, config, vm, elog, last, arg>>

SpecResolve == InitResolve /\ [][CallResolve]_vars

\* --- Resolve called repeatedly with the same store and name
\* A store that fetches on a miss: a failed lookup leaves the file in place.
ResolveAgainMutFetchOnMiss ==
    /\ Len(ret) < MaxResolves
    /\ ret' = Append(ret, Resolve(arg.store, arg.name))
    /\ LET p == JoinName(arg.store.root, arg.name)
       IN  fs' = IF p \in DOMAIN fs /\ Stat(p) = "ENOENT"
                 THEN [fs EXCEPT ![p] = [content |-> "hello", access |-> TRUE]]
                 ELSE fs
    /\ UNCHANGED <<req, plugin, config, vm, elog, last, arg>>

\* One more store.Resolve(name) call; the store and the name stay in arg.
ResolveAgain ==
    /\ Len(ret) < MaxResolves
    /\ ret' = Append(ret, Resolve(arg.store, arg.name))
    /\ UNCHANGED <<fs, req, plugin, config, vm, elog, last, arg>>

SpecResolveTwice == InitResolve /\ [][ResolveAgain]_vars

\* ================================================================== claims
\* C8: isValidPluginName(name) is true exactly when name is non-empty and all
\* of its characters are ASCII letters, ASCII digits, '_' or '-'; it is false
\* for "" and for any name holding '/', '\', '.', ' ', ';' or NUL.
C8_NameCheckExact ==
    ret # <<>> =>
        /\ ret[1] = (arg.name # <<>> /\ NameChars(arg.name) \subseteq AllowedChars)
        /\ (arg.name = <<>> \/ NameChars(arg.name) \cap {47, 92, 46, 32, 59, 0} # {})
               => ret[1] = FALSE

C8_Witness ==
    /\ ret = <<TRUE>>
    /\ Len(arg.name) >= 2
    /\ arg.name[1] # arg.name[2]

\* C9 as stated: Resolve returns <root>/<name>/<name>.wasm with no error iff a
\* file exists at that path, and otherwise an empty path with an error that
\* wraps ErrPluginNotFound and names the plugin.
C9_AsStated ==
    ret # <<>> =>
        LET want == JoinName(arg.store.root, arg.name)
            r == ret[1]
        IN  IF FileExists(want)
            THEN r.err = NoErr /\ r.path = want
            ELSE r.path = EmptyPath /\ WrapsNotFound(r.err) /\ r.err.about = AboutName(arg.name)

\* C9 amended: Resolve returns filepath.Join(root, name, name+".wasm") with no
\* error iff os.Stat of that path succeeds; when Stat reports that the path
\* does not exist it returns an empty path and an error wrapping
\* ErrPluginNotFound that names the plugin; on any other Stat failure it
\* returns an empty path and an error that does not wrap ErrPluginNotFound.
C9_ResolveByStat ==
    ret # <<>> =>
        LET want == JoinName(arg.store.root, arg.name)
            r == ret[1]
            e == FsEntry(want)
        IN  /\ (r.err = NoErr) = (e.access /\ e.content # None)
            /\ r.err = NoErr => r.path = want
            /\ r.err # NoErr => r.path = EmptyPath
            /\ (e.access /\ e.content = None) =>
                   (WrapsNotFound(r.err) /\ r.err.about = AboutName(arg.name))
            /\ ~e.access => (r.err # NoErr /\ ~WrapsNotFound(r.err))

C9_Witness ==
    /\ ret # <<>>
    /\ ret[1].err = NoErr
    /\ ret[1].path = JoinName(RootFluid, NameHello)
    /\ arg.store.type = "fluid"

\* C23: the error Resolve returns for a missing binary wraps
\* ErrPluginNotFound; the error it returns for any other filesystem failure
\* (permission, I/O) is an access error that wraps the cause and does not
\* wrap ErrPluginNotFound, so the two kinds are never confused.
AccessMessages == {"failed to access plugin", "failed to access plugin on Fluid mount"}
C23_NotFoundDistinctFromAccess ==
    ret # <<>> =>
        LET errno == Stat(JoinName(arg.store.root, arg.name))
            err == ret[1].err
        IN  /\ errno = "ENOENT" =>
                  (WrapsNotFound(err) /\ err.msg = ErrPluginNotFound /\ err.msg \notin AccessMessages)
            /\ errno \notin {"ok", "ENOENT"} =>
                  (~WrapsNotFound(err) /\ err.msg \in AccessMessages /\ err.wraps = errno)
            /\ errno = "ok" => err = NoErr

C23_Witness ==
    /\ ret # <<>>
    /\ arg.store.type = "fluid"
    /\ Stat(JoinName(arg.store.root, arg.name)) = "EACCES"
    /\ ret[1].err.msg = "failed to access plugin on Fluid mount"
    /\ ~WrapsNotFound(ret[1].err)

Classification(err) ==
    IF err = NoErr THEN "found"
    ELSE IF WrapsNotFound(err) THEN "not found"
    ELSE "access failure"
TwinStore(s) ==
    IF s.type = "local" THEN FluidPluginStore(s.root) ELSE LocalPluginStore(s.root)
C35_StoresEquivalent ==
    ret # <<>> =>
        LET twin == Resolve(TwinStore(arg.store), arg.name)
        IN  /\ TwinStore(arg.store).type # arg.store.type
            /\ ret[1].path = twin.path
            /\ Classification(ret[1].err) = Classification(twin.err)
            /\ ret[1].err.about = twin.err.about
            /\ ret[1].err.wraps = twin.err.wraps

C35_Witness ==
    /\ ret # <<>>
    /\ arg.store.type = "local"
    /\ arg.name = NameHello
    /\ Classification(ret[1].err) = "not found"
    /\ Classification(Resolve(TwinStore(arg.store), arg.name).err) = "not found"


\* --- the version decision over encoded and arbitrary int32 version numbers
MaxMajor == 8
FieldSamples == {0, 1, 50, 99}
Encode(major, minor, patch) == major * VersionUnit + minor * 100 + patch
VersionInputs ==
    {[version |-> Encode(ma, mi, pa), enc |-> <<ma, mi, pa>>] :
        ma \in 0..MaxMajor, mi \in FieldSamples, pa \in FieldSamples}
    \cup {[version |-> v, enc |-> <<>>] :
            v \in {Int32Min, -2 * VersionUnit, -VersionUnit, -VersionUnit + 1, -1,
                   Int32Max - 3647, Int32Max}}

InitVersion ==
    /\ arg \in VersionInputs
    /\ ret = <<>>
    /\ fs = <<>>
    /\ IdleRuntime

CallCompatible ==
    /\ ret = <<>>
    /\ ret' = <<Compatible(arg.version)>>
    /\ UNCHANGED <<fs, req, plugin, config, vm, elog, last, arg>>

SpecVersion == InitVersion /\ [][CallCompatible]_vars

\* C15: for every reported version number v the host's decision is exactly
\* (v / 10000) = required major with integer division, that is v lies in
\* 10000..19999; for v = major*10000 + minor*100 + patch (minor and patch two
\* digits each) the decision is major = 1 whatever minor and patch are.
C15_DecisionByMajor ==
    ret # <<>> =>
        /\ ret[1] = (arg.version >= RequiredMajor * VersionUnit
                        /\ arg.version < (RequiredMajor + 1) * VersionUnit)
        /\ arg.enc # <<>> => (ret[1] = (arg.enc[1] = RequiredMajor))

C15_Witness ==
    /\ ret = <<TRUE>>
    /\ arg.enc = <<1, 99, 99>>

====
